---- MODULE Spec2Model ----
(***************************************************************************)
(* IntelliMCP backend: the retrieval-augmented structured-generation       *)
(* pipeline (ingestion into the vector index, scoped retrieval, generation *)
(* of the structured MCP definition, persistence of the project record).   *)
(*                                                                         *)
(* Request handlers are processes.  A handler whose code awaits, loops or  *)
(* reads a record and commits it later is split into steps at those        *)
(* points; every other handler is one action.                              *)
(***************************************************************************)
EXTENDS Integers, Sequences, FiniteSets, TLC

(***************************************************************************)
(* JSON values.  A value is a pair <<kind, payload>>; the kind decides the *)
(* type of the payload, so two values are always comparable.               *)
(***************************************************************************)
JNull == <<"null", "null">>
JStr(s) == <<"str", s>>
JNum(n) == <<"num", n>>
JList(items) == <<"list", items>>
JObj(fields) == <<"obj", fields>>
Kind(v) == v[1]
Val(v) == v[2]
Keys(v) == IF Kind(v) = "obj" THEN DOMAIN Val(v) ELSE {}

\* Python truthiness of a JSON value: None, "", 0, [] and {} are falsy.
Truthy(v) ==
    CASE Kind(v) = "null" -> FALSE
      [] Kind(v) = "str" -> Val(v) # ""
      [] Kind(v) = "num" -> Val(v) # 0
      [] Kind(v) = "list" -> Len(Val(v)) > 0
      [] OTHER -> DOMAIN Val(v) # {}

(***************************************************************************)
(* models.py: McpExampleItem and McpDefinition, as pydantic validates a    *)
(* dict passed as keyword arguments: extra keys are ignored, a str field   *)
(* takes a string only, examples defaults to [].                           *)
(***************************************************************************)
StrFields == {"system_prompt", "input_schema_description", "output_schema_description"}
DefinitionFields == StrFields \cup {"constraints", "examples"}

McpExampleItemValid(v) ==
    /\ Kind(v) = "obj"
    /\ \A k \in {"input", "output"} : k \in DOMAIN Val(v) /\ Kind(Val(v)[k]) = "str"

McpExampleItem(v) == JObj([input |-> Val(v).input, output |-> Val(v).output])

ConstraintsValid(d) ==
    /\ "constraints" \in DOMAIN Val(d)
    /\ Kind(Val(d).constraints) = "list"
    /\ \A i \in 1..Len(Val(Val(d).constraints)) : Kind(Val(Val(d).constraints)[i]) = "str"

McpDefinitionValid(d) ==
    /\ Kind(d) = "obj"
    /\ \A k \in StrFields : k \in DOMAIN Val(d) /\ Kind(Val(d)[k]) = "str"
    /\ ConstraintsValid(d)
    /\ "examples" \in DOMAIN Val(d) =>
          /\ Kind(Val(d).examples) = "list"
          /\ \A i \in 1..Len(Val(Val(d).examples)) : McpExampleItemValid(Val(Val(d).examples)[i])

\* The McpDefinition object built from a valid dict, as it is serialized.
McpDefinition(d) ==
    JObj([system_prompt |-> Val(d).system_prompt,
          input_schema_description |-> Val(d).input_schema_description,
          output_schema_description |-> Val(d).output_schema_description,
          constraints |-> Val(d).constraints,
          examples |-> IF "examples" \in DOMAIN Val(d)
                       THEN JList([i \in 1..Len(Val(Val(d).examples)) |->
                                     McpExampleItem(Val(Val(d).examples)[i])])
                       ELSE JList(<<>>)])

(***************************************************************************)
(* The language model's raw output is text: either text holding JSON       *)
(* (tagged "json" with the value the text denotes) or text holding none.   *)
(* JsonOutputParser parses it; it is given the pydantic class for the      *)
(* format instructions only and returns whatever JSON it parsed.           *)
(***************************************************************************)
RawJson(v) == <<"json", v>>
RawText == <<"text", JStr("Sure! Here is your MCP.")>>

\* A parser that hands back whatever text it was given.
JsonOutputParserLenient(raw) == [ok |-> TRUE, value |-> raw[2]]

JsonOutputParser(raw) ==
    IF raw[1] = "json" THEN [ok |-> TRUE, value |-> raw[2]]
                       ELSE [ok |-> FALSE, value |-> JNull]

DefA ==
    JObj([system_prompt |-> JStr("You are A"),
          input_schema_description |-> JStr("in A"),
          output_schema_description |-> JStr("out A"),
          constraints |-> JList(<<JStr("c1"), JStr("c2")>>),
          examples |-> JList(<<JObj([input |-> JStr("i1"), output |-> JStr("o1")])>>)])
DefB ==
    JObj([system_prompt |-> JStr("You are B"),
          input_schema_description |-> JStr("in B"),
          output_schema_description |-> JStr("out B"),
          constraints |-> JList(<<>>),
          examples |-> JList(<<>>)])
DefNoExamples ==
    JObj([system_prompt |-> JStr("You are C"),
          input_schema_description |-> JStr("in C"),
          output_schema_description |-> JStr("out C"),
          constraints |-> JList(<<JStr("c1")>>)])
DefMissingConstraints ==
    JObj([system_prompt |-> JStr("You are D"),
          input_schema_description |-> JStr("in D"),
          output_schema_description |-> JStr("out D"),
          examples |-> JList(<<>>)])
DefBadConstraints ==
    JObj([system_prompt |-> JStr("You are E"),
          input_schema_description |-> JStr("in E"),
          output_schema_description |-> JStr("out E"),
          constraints |-> JList(<<JStr("c1"), JNum(7)>>),
          examples |-> JList(<<>>)])
JsonArray == JList(<<JStr("system_prompt")>>)

\* What one invocation of the chain's model can produce: an error, or text.
LlmRaises == <<"raise", JNull>>
LlmOutputs ==
    {RawText, RawJson(DefA), RawJson(DefB), RawJson(DefNoExamples),
     RawJson(DefMissingConstraints), RawJson(DefBadConstraints), RawJson(JsonArray)}
LlmOutcomes == {LlmRaises} \cup LlmOutputs

(***************************************************************************)
(* Bounds of the model and the input domains of the requests.              *)
(***************************************************************************)
MaxMcps == 2
MaxClock == 4
MaxChunks == 2

Clerks == {"clerk_a", "clerk_b"}
Handlers == {"h1", "h2"}
SeqHandlers == {"h1"}
McpIds == 1..MaxMcps
\* Project ids a request may name; an id not handed out yet has no row.
RequestMcpIds == McpIds
Prompts == {"g1"}

VARIABLES
    users,          \* table user: clerk_id -> id, 0 when the clerk has no row
    mcps,           \* table mcp: id -> row, NoRow when no row has that id
    mcp_seq,        \* ids handed out by the mcp table's sequence
    now,            \* the clock datetime.utcnow() reads
    index,          \* collection intellimcp_documents: the chunks written
    temp_files,     \* temporary copies of uploads that exist on disk
    chroma_host,    \* whether CHROMA_HOST is set in the environment
    remote_up,      \* whether the remote index answers a heartbeat
    client_cache,   \* lru_cache of get_vector_store: "none", "local", "remote"
    hs              \* per handler: the request in progress or last ended

vars == <<users, mcps, mcp_seq, now, index, temp_files, chroma_host, remote_up,
          client_cache, hs>>

NoRow == [owner_id |-> 0, goal |-> "", definition_json |-> JNull,
          created_at |-> 0, updated_at |-> 0]
NoResp == [status |-> 0, detail |-> "", body |-> JNull]
Unset == <<"unset", "unset">>
NoUpdate == [goal |-> Unset, definition_json |-> Unset]

Idle ==
    [pc |-> "idle", op |-> "none", clerk |-> "none", user_id |-> 0, mcp_id |-> 0,
     goal |-> "", update |-> NoUpdate, search |-> "none", where |-> {},
     results |-> <<>>, context |-> <<>>, llm |-> <<"none", JNull>>, generated |-> JNull,
     content_type |-> "", source |-> "", loaded |-> <<"none", <<>>>>,
     chunks |-> <<>>, written |-> 0, commit_at |-> 0,
     pre_cache |-> "none", client |-> "none", client_built |-> FALSE,
     embeddings_built |-> FALSE,
     pre |-> [m \in McpIds |-> NoRow],
     pre_users |-> [c \in Clerks |-> 0], resp |-> NoResp]

\* A request entering handler h: its locals are fresh; pre and pre_users
\* record the tables as the request found them.
Begin(op, clerk, mcp_id) ==
    [Idle EXCEPT !.pc = "run", !.op = op, !.clerk = clerk, !.mcp_id = mcp_id,
                 !.pre = mcps, !.pre_users = users, !.pre_cache = client_cache]

Respond(r, status, detail, body) ==
    [r EXCEPT !.pc = "done",
              !.resp = [status |-> status, detail |-> detail, body |-> body]]

Free(h) == hs[h].pc \in {"idle", "done"}

RowJson(id, row) ==
    JObj([id |-> JNum(id), owner_id |-> JNum(row.owner_id), goal |-> JStr(row.goal),
          definition_json |-> row.definition_json,
          created_at |-> JNum(row.created_at), updated_at |-> JNum(row.updated_at)])

Init ==
    /\ users = [c \in Clerks |-> 0]
    /\ mcps = [m \in McpIds |-> NoRow]
    /\ mcp_seq = 0
    /\ now = 1
    /\ index = {}
    /\ temp_files = {}
    /\ chroma_host = FALSE
    /\ remote_up = TRUE
    /\ client_cache = "none"
    /\ hs = [h \in Handlers |-> Idle]

(***************************************************************************)
(* auth_utils.py get_current_db_user: the caller's user row, created on    *)
(* the first request of a clerk id.  db_ok: whether that commit succeeds.  *)
(***************************************************************************)
get_current_db_user(clerk, db_ok) ==
    IF users[clerk] # 0
    THEN [ok |-> TRUE, users |-> users, id |-> users[clerk]]
    ELSE IF db_ok
         THEN LET id == Cardinality({c \in Clerks : users[c] # 0}) + 1
              IN [ok |-> TRUE, users |-> [users EXCEPT ![clerk] = id], id |-> id]
         ELSE [ok |-> FALSE, users |-> users, id |-> 0]

(***************************************************************************)
(* vector_store_services.py get_vector_store (lru_cache: a raised call     *)
(* caches nothing) as get_vector_store_dependency calls it.                *)
(***************************************************************************)
\* A body that falls back to local storage when the remote index fails.
get_vector_store_body_fallback ==
    IF chroma_host /\ remote_up THEN [ok |-> TRUE, cache |-> "remote"]
                                ELSE [ok |-> TRUE, cache |-> "local"]

\* The body: the client CHROMA_HOST selects, or the exception re-raised.
get_vector_store_body ==
    IF chroma_host
    THEN IF remote_up THEN [ok |-> TRUE, cache |-> "remote"]
                      ELSE [ok |-> FALSE, cache |-> "none"]
    ELSE [ok |-> TRUE, cache |-> "local"]

get_vector_store ==
    IF client_cache # "none" THEN [ok |-> TRUE, cache |-> client_cache]
    ELSE get_vector_store_body

(***************************************************************************)
(* vector_store_services.py get_vector_store_dependency, as the requests   *)
(* of two handlers resolve it at the same time.  It is a plain function,   *)
(* run on a worker thread: the lookup in the lru_cache, the body of        *)
(* get_vector_store on a miss and the rest of the dependency are steps of  *)
(* their own.  A result computed while another call stored one is returned *)
(* to its caller and not stored.                                           *)
(***************************************************************************)
\* A cache that also keeps the failure of a call.
lru_cache_store_failures(cache, b) ==
    IF cache # "none" THEN cache ELSE IF b.ok THEN b.cache ELSE "failed"

\* The cache after a call whose body returned or raised b: a raised call
\* stores nothing, a returned one stores its result unless the cache holds
\* one by then.
lru_cache_store(cache, b) == IF b.ok /\ cache = "none" THEN b.cache ELSE cache

get_vector_store_dependency_call(h, clerk) ==
    /\ Free(h)
    /\ LET r == Begin("get_vector_store_dependency", clerk, 0)
       IN hs' = [hs EXCEPT ![h] =
             IF client_cache # "none"
             THEN [r EXCEPT !.pc = "dependency_embeddings", !.client = client_cache]
             ELSE [r EXCEPT !.pc = "get_vector_store_body"]]
    /\ UNCHANGED <<users, mcps, mcp_seq, now, index, temp_files, chroma_host,
                   remote_up, client_cache>>

get_vector_store_run(h) ==
    /\ hs[h].pc = "get_vector_store_body"
    /\ LET r == hs[h]
           b == get_vector_store_body
       IN IF b.ok
          THEN /\ hs' = [hs EXCEPT ![h] = [r EXCEPT !.pc = "dependency_embeddings",
                                                    !.client = b.cache,
                                                    !.client_built = TRUE]]
               /\ client_cache' = lru_cache_store(client_cache, b)
          ELSE /\ hs' = [hs EXCEPT ![h] = Respond(r, 500, "vector store unavailable", JNull)]
               /\ client_cache' = lru_cache_store(client_cache, b)
    /\ UNCHANGED <<users, mcps, mcp_seq, now, index, temp_files, chroma_host, remote_up>>

\* embeddings = OpenAIEmbeddings(); Chroma(client=..., embedding_function=...)
get_vector_store_dependency_return(h, embeddings_ok) ==
    /\ hs[h].pc = "dependency_embeddings"
    /\ hs' = [hs EXCEPT ![h] =
          IF embeddings_ok
          THEN Respond([hs[h] EXCEPT !.embeddings_built = TRUE], 200, "", JNull)
          ELSE Respond(hs[h], 500, "embeddings unavailable", JNull)]
    /\ UNCHANGED <<users, mcps, mcp_seq, now, index, temp_files, chroma_host,
                   remote_up, client_cache>>

\* health_check(): get_vector_store() and a heartbeat of the client, any
\* exception turned into the answer "unhealthy".
health_check(h) ==
    /\ Free(h)
    /\ LET r == Begin("health_check", "none", 0)
           vs == get_vector_store
           built == client_cache = "none" /\ vs.ok
           heartbeat_ok == vs.cache = "local" \/ remote_up
       IN /\ client_cache' = lru_cache_store(client_cache, vs)
          /\ hs' = [hs EXCEPT ![h] =
                IF vs.ok /\ heartbeat_ok
                THEN Respond([r EXCEPT !.client = vs.cache, !.client_built = built],
                             200, "healthy", JObj([status |-> JStr("healthy")]))
                ELSE Respond([r EXCEPT !.client = vs.cache, !.client_built = built],
                             200, "unhealthy", JObj([status |-> JStr("unhealthy")]))]
    /\ UNCHANGED <<users, mcps, mcp_seq, now, index, temp_files, chroma_host, remote_up>>

\* The remote index goes down or comes back.
remote_index_changes ==
    /\ chroma_host
    /\ remote_up' = ~remote_up
    /\ UNCHANGED <<users, mcps, mcp_seq, now, index, temp_files, chroma_host,
                   client_cache, hs>>

\* A select by id alone.
OwnedRowAnyOwner(mcp_id, user_id) ==
    IF mcp_id \in McpIds /\ mcps[mcp_id].owner_id # 0 THEN mcps[mcp_id] ELSE NoRow

\* select(Mcp).where(Mcp.id == mcp_id, Mcp.owner_id == user.id).first()
OwnedRow(mcp_id, user_id) ==
    IF mcp_id \in McpIds /\ mcps[mcp_id].owner_id # 0 /\ mcps[mcp_id].owner_id = user_id
    THEN mcps[mcp_id] ELSE NoRow

\* A handler that leaves the change it attempted in place.
session_rollback_skipped(attempted, stored) == attempted

\* except Exception: session.rollback().  The commit was rejected: the row
\* is as stored, not as the request attempted to write it.
session_rollback(attempted, stored) == stored

(***************************************************************************)
(* routers/mcp.py create_mcp: the user must exist already (404 otherwise). *)
(***************************************************************************)
NewMcp(owner_id, goal) ==
    [owner_id |-> owner_id, goal |-> goal, definition_json |-> JNull,
     created_at |-> now, updated_at |-> now]

create_mcp(h, clerk, goal, commit_ok) ==
    /\ Free(h)
    /\ mcp_seq < MaxMcps /\ now < MaxClock
    /\ LET r == Begin("create_mcp", clerk, 0)
           id == mcp_seq + 1
       IN IF users[clerk] = 0
          THEN /\ hs' = [hs EXCEPT ![h] = Respond(r, 404, "user not found", JNull)]
               /\ UNCHANGED <<mcps, mcp_seq, now>>
          ELSE IF ~commit_ok
          THEN /\ hs' = [hs EXCEPT ![h] = Respond(r, 500, "commit failed", JNull)]
               /\ mcps' = [mcps EXCEPT
                              ![id] = session_rollback(NewMcp(users[clerk], goal), @)]
               /\ UNCHANGED <<mcp_seq, now>>
          ELSE /\ mcps' = [mcps EXCEPT ![id] = NewMcp(users[clerk], goal)]
               /\ mcp_seq' = id
               /\ now' = now + 1
               /\ hs' = [hs EXCEPT ![h] =
                           Respond([r EXCEPT !.mcp_id = id, !.user_id = users[clerk]],
                                   201, "", RowJson(id, mcps'[id]))]
    /\ UNCHANGED <<users, index, temp_files, chroma_host, remote_up, client_cache>>

(***************************************************************************)
(* routers/prompt.py initiate_mcp_from_prompt: the prompt is the goal.     *)
(***************************************************************************)
initiate_mcp_from_prompt(h, clerk, prompt, db_ok, commit_ok) ==
    /\ Free(h)
    /\ mcp_seq < MaxMcps /\ now < MaxClock
    /\ LET r == Begin("initiate_mcp_from_prompt", clerk, 0)
           u == get_current_db_user(clerk, db_ok)
           id == mcp_seq + 1
       IN /\ users' = u.users
          /\ IF ~u.ok
             THEN /\ hs' = [hs EXCEPT ![h] = Respond(r, 500, "user commit failed", JNull)]
                  /\ UNCHANGED <<mcps, mcp_seq, now>>
             ELSE IF ~commit_ok
             THEN /\ hs' = [hs EXCEPT ![h] =
                              Respond([r EXCEPT !.user_id = u.id], 500, "commit failed", JNull)]
                  /\ mcps' = [mcps EXCEPT ![id] = session_rollback(NewMcp(u.id, prompt), @)]
                  /\ UNCHANGED <<mcp_seq, now>>
             ELSE /\ mcps' = [mcps EXCEPT ![id] = NewMcp(u.id, prompt)]
                  /\ mcp_seq' = id
                  /\ now' = now + 1
                  /\ hs' = [hs EXCEPT ![h] =
                              Respond([r EXCEPT !.mcp_id = id, !.user_id = u.id], 201, "",
                                      JObj([mcp_id |-> JNum(id), goal |-> JStr(prompt)]))]
    /\ UNCHANGED <<index, temp_files, chroma_host, remote_up, client_cache>>

(***************************************************************************)
(* routers/mcp.py update_mcp.  The request body (McpUpdateRequest) may set *)
(* goal and definition_json (any JSON object, or null); name, domain,      *)
(* roles, constraints and generated_content are handled as goal is.  The   *)
(* handler reads the row and sets the given attributes (update_mcp_fetch), *)
(* then commits (update_mcp_commit): the UPDATE writes the attributes that *)
(* were set, and updated_at, to the row with that id.                      *)
(***************************************************************************)
UpdateRequests ==
    {[goal |-> Unset, definition_json |-> Unset],
     [goal |-> JStr("g2"), definition_json |-> Unset],
     [goal |-> JNull, definition_json |-> Unset],
     [goal |-> Unset, definition_json |-> DefA],
     [goal |-> Unset, definition_json |-> DefMissingConstraints],
     [goal |-> Unset, definition_json |-> JNull],
     [goal |-> JStr("g2"), definition_json |-> DefB]}

\* update_data.model_dump(exclude_unset=True): the fields the body gave.
model_dump(update) == {k \in DOMAIN update : update[k] # Unset}

update_mcp_fetch(h, clerk, mcp_id, update, db_ok) ==
    /\ Free(h)
    /\ now < MaxClock
    /\ LET r == Begin("update_mcp", clerk, mcp_id)
           u == get_current_db_user(clerk, db_ok)
           ru == [r EXCEPT !.user_id = u.id, !.update = update]
           row == OwnedRow(mcp_id, u.id)
       IN /\ users' = u.users
          /\ hs' = [hs EXCEPT ![h] =
                IF ~u.ok THEN Respond(r, 500, "user commit failed", JNull)
                ELSE IF row = NoRow THEN Respond(ru, 404, "not found", JNull)
                ELSE IF model_dump(update) = {}
                     THEN Respond(ru, 200, "", RowJson(mcp_id, row))
                     ELSE [ru EXCEPT !.pc = "update_commit"]]
    /\ UNCHANGED <<mcps, mcp_seq, now, index, temp_files, chroma_host, remote_up,
                   client_cache>>

\* A flush that writes the attribute whether or not its value changed.
flushed_always(current, loaded, new) == new

\* session.commit() flushes an UPDATE of the columns whose attribute differs
\* from the value the record was loaded with; the other columns of the row
\* keep their current value.
flushed(current, loaded, new) == IF new # loaded THEN new ELSE current

\* An UPDATE that writes every field of the body, the unset ones as NULL.
UpdatedRowAllFields(row, loaded, update) ==
    [row EXCEPT !.goal = IF update.goal # Unset THEN Val(update.goal) ELSE @,
                !.definition_json = IF update.definition_json # Unset
                                    THEN update.definition_json ELSE JNull,
                !.updated_at = now]

\* An UPDATE that writes the whole record as the request holds it.
UpdatedRowFullRecord(row, loaded, update) ==
    [loaded EXCEPT !.goal = IF update.goal # Unset THEN Val(update.goal) ELSE @,
                   !.definition_json = IF update.definition_json # Unset
                                       THEN update.definition_json ELSE @,
                   !.updated_at = now]

\* The row after the UPDATE the session flushes for the attributes set on
\* the record, which was loaded as loaded.
UpdatedRow(row, loaded, update) ==
    [row EXCEPT !.goal = IF update.goal # Unset
                         THEN flushed(@, loaded.goal, Val(update.goal)) ELSE @,
                !.definition_json = IF update.definition_json # Unset
                                    THEN flushed(@, loaded.definition_json,
                                                 update.definition_json)
                                    ELSE @,
                !.updated_at = now]

update_mcp_commit(h, commit_ok) ==
    /\ hs[h].pc = "update_commit"
    /\ LET r == hs[h]
           id == r.mcp_id
           \* the row was deleted meanwhile, goal is NULL, or the store fails
           accepted == commit_ok /\ mcps[id] # NoRow /\ r.update.goal # JNull
       IN IF accepted
          THEN /\ mcps' = [mcps EXCEPT ![id] = UpdatedRow(mcps[id], r.pre[id], r.update)]
               /\ now' = now + 1
               /\ hs' = [hs EXCEPT ![h] = Respond([r EXCEPT !.commit_at = now], 200, "",
                                                   RowJson(id, mcps'[id]))]
          ELSE /\ hs' = [hs EXCEPT ![h] = Respond(r, 500, "commit failed", JNull)]
               /\ mcps' = [mcps EXCEPT
                              ![id] = session_rollback(UpdatedRow(@, r.pre[id], r.update), @)]
               /\ now' = now
    /\ UNCHANGED <<users, mcp_seq, index, temp_files, chroma_host, remote_up,
                   client_cache>>

\* A delete that also removes the chunks tagged with the project's id.
delete_mcp_cascade(h, clerk, mcp_id, db_ok, commit_ok) ==
    /\ Free(h)
    /\ LET r == Begin("delete_mcp", clerk, mcp_id)
           u == get_current_db_user(clerk, db_ok)
           ru == [r EXCEPT !.user_id = u.id]
           row == OwnedRow(mcp_id, u.id)
       IN /\ users' = u.users
          /\ IF u.ok /\ row # NoRow /\ commit_ok
             THEN /\ mcps' = [mcps EXCEPT ![mcp_id] = NoRow]
                  /\ index' = {c \in index : c.metadata.mcp_id # mcp_id}
                  /\ hs' = [hs EXCEPT ![h] = Respond(ru, 204, "", JNull)]
             ELSE /\ mcps' = mcps
                  /\ index' = index
                  /\ hs' = [hs EXCEPT ![h] =
                        IF ~u.ok THEN Respond(r, 500, "user commit failed", JNull)
                        ELSE IF row = NoRow THEN Respond(ru, 404, "not found", JNull)
                        ELSE Respond(ru, 500, "commit failed", JNull)]
    /\ UNCHANGED <<mcp_seq, now, temp_files, chroma_host, remote_up, client_cache>>

(***************************************************************************)
(* routers/mcp.py delete_mcp: removes the row; the vector index is not     *)
(* touched.                                                                *)
(***************************************************************************)
delete_mcp(h, clerk, mcp_id, db_ok, commit_ok) ==
    /\ Free(h)
    /\ LET r == Begin("delete_mcp", clerk, mcp_id)
           u == get_current_db_user(clerk, db_ok)
           ru == [r EXCEPT !.user_id = u.id]
           row == OwnedRow(mcp_id, u.id)
       IN /\ users' = u.users
          /\ IF u.ok /\ row # NoRow /\ commit_ok
             THEN /\ mcps' = [mcps EXCEPT ![mcp_id] = NoRow]
                  /\ hs' = [hs EXCEPT ![h] = Respond(ru, 204, "", JNull)]
             ELSE /\ mcps' = IF u.ok /\ row # NoRow
                              THEN [mcps EXCEPT ![mcp_id] = session_rollback(NoRow, @)]
                              ELSE mcps
                  /\ hs' = [hs EXCEPT ![h] =
                        IF ~u.ok THEN Respond(r, 500, "user commit failed", JNull)
                        ELSE IF row = NoRow THEN Respond(ru, 404, "not found", JNull)
                        ELSE Respond(ru, 500, "commit failed", JNull)]
    /\ UNCHANGED <<mcp_seq, now, index, temp_files, chroma_host, remote_up, client_cache>>

(***************************************************************************)
(* The vector index.  A chunk is [id, text, metadata]; a where-filter is a *)
(* set of <<field, value>> equalities joined by $and, {} being no filter.  *)
(***************************************************************************)
Matches(chunk, where) == \A p \in where : chunk.metadata[p[1]] = p[2]

Chunk(id) == CHOOSE c \in index : c.id = id

\* The orders in which a nearest-neighbour search may rank k of the chunks S.
Rankings(S, k) ==
    LET n == IF Cardinality(S) < k THEN Cardinality(S) ELSE k
    IN {r \in [1..n -> S] : \A i, j \in 1..n : i # j => r[i] # r[j]}

similarity_search(collection, k, where) ==
    Rankings({c.id : c \in {x \in collection : Matches(x, where)}}, k)

\* Chroma.get(where=..., include=["metadatas"])
get_metadatas(collection, where) ==
    {c.metadata : c \in {x \in collection : Matches(x, where)}}

(***************************************************************************)
(* routers/generation.py generate_mcp_json.                                *)
(***************************************************************************)
GenerateK == 5
Placeholder == "No relevant context found for this specific MCP."
Separator == "\n\n---\n\n"

\* A filter on the project id alone.
filter_dict_mcp_only(mcp_id, user_id) == {<<"mcp_id", mcp_id>>}

\* filter_dict: {"$and": [{"mcp_id": mcp_id}, {"user_id": user.id}]}
filter_dict(mcp_id, user_id) == {<<"mcp_id", mcp_id>>, <<"user_id", user_id>>}

\* "\n\n---\n\n".join(texts), as the sequence of its pieces
RECURSIVE Join(_)
Join(texts) ==
    IF Len(texts) = 0 THEN <<>>
    ELSE IF Len(texts) = 1 THEN <<texts[1]>>
    ELSE <<texts[1], Separator>> \o Join(Tail(texts))

\* The joined texts with no placeholder for an empty result.
retrieved_chunks_str_joined(results) ==
    Join([i \in 1..Len(results) |-> Chunk(results[i]).text])

\* retrieved_chunks_str after step 2, from the ids the search returned
retrieved_chunks_str(results) ==
    IF Len(results) > 0
    THEN Join([i \in 1..Len(results) |-> Chunk(results[i]).text])
    ELSE <<Placeholder>>

\* Step 1: the dependencies, then the row, by id and owner.
generate_mcp_json_fetch(h, clerk, mcp_id, db_ok) ==
    /\ Free(h)
    /\ now < MaxClock
    /\ LET r == Begin("generate_mcp_json", clerk, mcp_id)
           u == get_current_db_user(clerk, db_ok)
           vs == get_vector_store
           ru == [r EXCEPT !.user_id = u.id]
           row == OwnedRow(mcp_id, u.id)
       IN /\ users' = u.users
          /\ client_cache' = IF u.ok THEN vs.cache ELSE client_cache
          /\ hs' = [hs EXCEPT ![h] =
                IF ~u.ok THEN Respond(r, 500, "user commit failed", JNull)
                ELSE IF ~vs.ok THEN Respond(ru, 500, "vector store unavailable", JNull)
                ELSE IF row = NoRow THEN Respond(ru, 404, "not found", JNull)
                ELSE [ru EXCEPT !.pc = "generate_retrieve", !.goal = row.goal]]
    /\ UNCHANGED <<mcps, mcp_seq, now, index, temp_files, chroma_host, remote_up>>

\* Step 2: the scoped search; an exception is logged and the placeholder kept.
generate_mcp_json_retrieve(h, search_ok) ==
    /\ hs[h].pc = "generate_retrieve"
    /\ LET r == hs[h]
       IN IF search_ok
          THEN \E results \in similarity_search(index, GenerateK,
                                                filter_dict(r.mcp_id, r.user_id)) :
                 hs' = [hs EXCEPT ![h] = [r EXCEPT !.pc = "generate_invoke",
                                                   !.search = "ok",
                                                   !.where = filter_dict(r.mcp_id, r.user_id),
                                                   !.results = results,
                                                   !.context = retrieved_chunks_str(results)]]
          ELSE hs' = [hs EXCEPT ![h] = [r EXCEPT !.pc = "generate_invoke",
                                                 !.search = "raised",
                                                 !.where = filter_dict(r.mcp_id, r.user_id),
                                                 !.context = <<Placeholder>>]]
    /\ UNCHANGED <<users, mcps, mcp_seq, now, index, temp_files, chroma_host,
                   remote_up, client_cache>>

\* Steps 3-6, to the await: prompt | llm | parser.  An exception of the
\* model or of the parser is caught: rollback, 500 with the cause.
generate_mcp_json_invoke(h, outcome) ==
    /\ hs[h].pc = "generate_invoke"
    /\ LET r == [hs[h] EXCEPT !.llm = outcome]
           parsed == JsonOutputParser(outcome)
       IN hs' = [hs EXCEPT ![h] =
             IF outcome = LlmRaises THEN Respond(r, 500, "model error", JNull)
             ELSE IF ~parsed.ok THEN Respond(r, 500, "output is not JSON", JNull)
             ELSE [r EXCEPT !.pc = "generate_commit", !.generated = parsed.value]]
    /\ UNCHANGED <<users, mcps, mcp_seq, now, index, temp_files, chroma_host,
                   remote_up, client_cache>>

\* An assignment that updates the dict the record holds, key by key.
definition_json_merged(old, generated) ==
    IF Kind(old) = "obj" /\ Kind(generated) = "obj"
    THEN JObj([k \in Keys(old) \cup Keys(generated) |->
                 IF k \in Keys(generated) THEN Val(generated)[k] ELSE Val(old)[k]])
    ELSE generated

\* mcp_record.definition_json = generated_json_dict: the attribute now
\* holds the parsed dict, whatever value old the record was loaded with.
definition_json_assigned(old, generated) == generated

\* Whether the response is built: McpDefinition(**generated_json_dict).
ResponseValid(generated) == McpDefinitionValid(generated)

\* After the await: the dict is assigned and committed, then the response
\* model is built from it; an exception of either is caught: rollback (of
\* nothing, once committed), 500 with the cause.
generate_mcp_json_commit(h, commit_ok) ==
    /\ hs[h].pc = "generate_commit"
    /\ LET r == hs[h]
           id == r.mcp_id
           accepted == commit_ok /\ mcps[id] # NoRow
           new == definition_json_assigned(r.pre[id].definition_json, r.generated)
       IN IF accepted
          THEN /\ mcps' = [mcps EXCEPT
                              ![id].definition_json =
                                  flushed(@, r.pre[id].definition_json, new),
                              ![id].updated_at = now]
               /\ now' = now + 1
               /\ hs' = [hs EXCEPT ![h] =
                     IF ResponseValid(r.generated)
                     THEN Respond([r EXCEPT !.commit_at = now], 200, "",
                                  JObj([definition_json |-> McpDefinition(r.generated)]))
                     ELSE Respond([r EXCEPT !.commit_at = now], 500, "validation error",
                                  JNull)]
          ELSE /\ hs' = [hs EXCEPT ![h] = Respond(r, 500, "commit failed", JNull)]
               /\ mcps' = [mcps EXCEPT
                              ![id] = session_rollback([@ EXCEPT !.definition_json = new,
                                                                 !.updated_at = now], @)]
               /\ now' = now
    /\ UNCHANGED <<users, mcp_seq, index, temp_files, chroma_host, remote_up,
                   client_cache>>

(***************************************************************************)
(* routers/ingestion.py.  A loader either raises or returns documents; a   *)
(* document is modelled by the texts the splitter cuts it into (none for   *)
(* a document without text), and split_documents concatenates them.        *)
(***************************************************************************)
\* An allow-list that also lets images through.
allowed_content_types_with_images ==
    {"application/pdf",
     "application/vnd.openxmlformats-officedocument.wordprocessingml.document",
     "text/plain", "image/png"}

allowed_content_types ==
    {"application/pdf",
     "application/vnd.openxmlformats-officedocument.wordprocessingml.document",
     "text/plain"}
ContentTypes == {"application/pdf", "text/plain", "image/png"}
Filenames == {"a.txt"}
Urls == {"http://x/"}
Documents == {<<>>, << <<>> >>, << <<"t1">> >>, << <<"t1", "t2">> >>}
LoaderRaises == <<"raise", <<>>>>
LoaderImportError == <<"import_error", <<>>>>
Loaded(docs) == <<"documents", docs>>
FileLoaderOutcomes == {LoaderRaises} \cup {Loaded(d) : d \in Documents}
UrlLoaderOutcomes == {LoaderRaises, LoaderImportError} \cup {Loaded(d) : d \in Documents}

RECURSIVE split_documents(_)
split_documents(docs) ==
    IF Len(docs) = 0 THEN <<>> ELSE docs[1] \o split_documents(Tail(docs))

\* Metadata that names the owner of the project instead of the caller.
ChunkMetadataOwner(source, user_id, mcp_id) ==
    [source |-> source, user_id |-> mcps[mcp_id].owner_id, mcp_id |-> mcp_id]

\* The metadata attached to every chunk of a request.
ChunkMetadata(source, user_id, mcp_id) ==
    [source |-> source, user_id |-> user_id, mcp_id |-> mcp_id]

\* A write under one fixed id: a later chunk takes the place of an earlier.
add_texts_fixed_id(text, metadata) ==
    {c \in index : c.id # 1} \cup {[id |-> 1, text |-> text, metadata |-> metadata]}

\* vector_store.add_texts(texts=[text], metadatas=[metadata], ids=[uuid4()])
add_texts(text, metadata) ==
    index \cup {[id |-> Cardinality(index) + 1, text |-> text, metadata |-> metadata]}

FileMessage(n, mcp_id) ==
    JList(<<JStr("File processed and "), JNum(n),
            JStr(" chunks stored successfully for MCP "), JNum(mcp_id)>>)
UrlMessage(n, mcp_id) ==
    JList(<<JStr("URL content processed and "), JNum(n),
            JStr(" chunks stored successfully for MCP "), JNum(mcp_id)>>)

\* A temporary directory that outlives its with block.
TemporaryDirectory_kept(h, source) == temp_files

\* Leaving the with block of tempfile.TemporaryDirectory(), by return or by
\* exception, removes the directory and the copy of the upload in it.
TemporaryDirectory_exit(h, source) == temp_files \ {<<h, source>>}

\* ingest_file to the end of step 1: dependencies, the content-type check,
\* the temporary directory and the copy of the upload into it.
ingest_file_start(h, clerk, mcp_id, content_type, filename, db_ok, save_ok) ==
    /\ Free(h)
    /\ LET r == [Begin("ingest_file", clerk, mcp_id) EXCEPT
                    !.content_type = content_type, !.source = filename]
           u == get_current_db_user(clerk, db_ok)
           vs == get_vector_store
           ru == [r EXCEPT !.user_id = u.id]
           saved == u.ok /\ vs.ok /\ content_type \in allowed_content_types /\ save_ok
       IN /\ users' = u.users
          /\ client_cache' = IF u.ok THEN vs.cache ELSE client_cache
          /\ temp_files' = IF saved THEN temp_files \cup {<<h, filename>>} ELSE temp_files
          /\ hs' = [hs EXCEPT ![h] =
                IF ~u.ok THEN Respond(r, 500, "user commit failed", JNull)
                ELSE IF ~vs.ok THEN Respond(ru, 500, "vector store unavailable", JNull)
                ELSE IF content_type \notin allowed_content_types
                     THEN Respond(ru, 400, "Invalid file type", JNull)
                ELSE IF ~save_ok
                     THEN Respond(ru, 500, "Error saving uploaded file.", JNull)
                ELSE [ru EXCEPT !.pc = "ingest_file_load"]]
    /\ UNCHANGED <<mcps, mcp_seq, now, index, chroma_host, remote_up>>

\* Step 2 and 3: the loader and the splitter.  Leaving the with block
\* removes the temporary directory.
ingest_file_load(h, loaded) ==
    /\ hs[h].pc = "ingest_file_load"
    /\ LET r == [hs[h] EXCEPT !.loaded = loaded]
           chunks == split_documents(loaded[2])
       IN /\ Cardinality(index) + Len(chunks) <= MaxChunks
          /\ IF loaded = LoaderRaises
             THEN /\ hs' = [hs EXCEPT ![h] = Respond(r, 500, "Error processing document", JNull)]
                  /\ temp_files' = TemporaryDirectory_exit(h, r.source)
             ELSE IF Len(loaded[2]) = 0
             THEN /\ hs' = [hs EXCEPT ![h] =
                        Respond(r, 201, "",
                                JObj([filename |-> JStr(r.source),
                                      message |-> JList(<<JStr("File received, but no content could be extracted.")>>)]))]
                  /\ temp_files' = TemporaryDirectory_exit(h, r.source)
             ELSE /\ hs' = [hs EXCEPT ![h] = [r EXCEPT !.pc = "ingest_file_write",
                                                       !.chunks = chunks]]
                  /\ temp_files' = temp_files
    /\ UNCHANGED <<users, mcps, mcp_seq, now, index, chroma_host, remote_up, client_cache>>

\* The loop over the chunks, one add_texts each, and the return after it.
ingest_file_write(h, add_ok) ==
    /\ hs[h].pc = "ingest_file_write"
    /\ LET r == hs[h]
           i == r.written + 1
       IN IF i <= Len(r.chunks)
          THEN IF add_ok
               THEN /\ index' = add_texts(r.chunks[i],
                                          ChunkMetadata(r.source, r.user_id, r.mcp_id))
                    /\ hs' = [hs EXCEPT ![h] = [r EXCEPT !.written = i]]
                    /\ temp_files' = temp_files
               ELSE /\ hs' = [hs EXCEPT ![h] =
                          Respond(r, 500, "Error storing document embeddings", JNull)]
                    /\ temp_files' = TemporaryDirectory_exit(h, r.source)
                    /\ index' = index
          ELSE /\ hs' = [hs EXCEPT ![h] =
                     Respond(r, 201, "",
                             JObj([filename |-> JStr(r.source), mcp_id |-> JNum(r.mcp_id),
                                   message |-> FileMessage(Len(r.chunks), r.mcp_id)]))]
               /\ temp_files' = TemporaryDirectory_exit(h, r.source)
               /\ index' = index
    /\ UNCHANGED <<users, mcps, mcp_seq, now, chroma_host, remote_up, client_cache>>

\* ingest_url: dependencies; the rest runs inside one try.
ingest_url_start(h, clerk, mcp_id, url, db_ok) ==
    /\ Free(h)
    /\ LET r == [Begin("ingest_url", clerk, mcp_id) EXCEPT !.source = url]
           u == get_current_db_user(clerk, db_ok)
           vs == get_vector_store
           ru == [r EXCEPT !.user_id = u.id]
       IN /\ users' = u.users
          /\ client_cache' = IF u.ok THEN vs.cache ELSE client_cache
          /\ hs' = [hs EXCEPT ![h] =
                IF ~u.ok THEN Respond(r, 500, "user commit failed", JNull)
                ELSE IF ~vs.ok THEN Respond(ru, 500, "vector store unavailable", JNull)
                ELSE [ru EXCEPT !.pc = "ingest_url_load"]]
    /\ UNCHANGED <<mcps, mcp_seq, now, index, temp_files, chroma_host, remote_up>>

ingest_url_load(h, loaded) ==
    /\ hs[h].pc = "ingest_url_load"
    /\ LET r == [hs[h] EXCEPT !.loaded = loaded]
           chunks == split_documents(loaded[2])
       IN /\ Cardinality(index) + Len(chunks) <= MaxChunks
          /\ hs' = [hs EXCEPT ![h] =
                IF loaded = LoaderImportError
                THEN Respond(r, 500, "Server configuration error", JNull)
                ELSE IF loaded = LoaderRaises
                THEN Respond(r, 500, "Error processing URL", JNull)
                ELSE IF Len(loaded[2]) = 0
                THEN Respond(r, 201, "",
                             JObj([url |-> JStr(r.source),
                                   message |-> JList(<<JStr("URL fetched, but no content could be extracted.")>>)]))
                ELSE [r EXCEPT !.pc = "ingest_url_write", !.chunks = chunks]]
    /\ UNCHANGED <<users, mcps, mcp_seq, now, index, temp_files, chroma_host,
                   remote_up, client_cache>>

ingest_url_write(h, add_ok) ==
    /\ hs[h].pc = "ingest_url_write"
    /\ LET r == hs[h]
           i == r.written + 1
       IN IF i <= Len(r.chunks)
          THEN IF add_ok
               THEN /\ index' = add_texts(r.chunks[i],
                                          ChunkMetadata(r.source, r.user_id, r.mcp_id))
                    /\ hs' = [hs EXCEPT ![h] = [r EXCEPT !.written = i]]
               ELSE /\ hs' = [hs EXCEPT ![h] = Respond(r, 500, "Error processing URL", JNull)]
                    /\ index' = index
          ELSE /\ hs' = [hs EXCEPT ![h] =
                     Respond(r, 201, "",
                             JObj([url |-> JStr(r.source), mcp_id |-> JNum(r.mcp_id),
                                   message |-> UrlMessage(Len(r.chunks), r.mcp_id)]))]
               /\ index' = index
    /\ UNCHANGED <<users, mcps, mcp_seq, now, temp_files, chroma_host, remote_up,
                   client_cache>>

\* sorted(list(sources)): the order of Python's str comparison
SourceOrder == <<"a.txt", "http://x/">>
sorted(S) == SelectSeq(SourceOrder, LAMBDA x : x \in S)

\* A filter of the sources on the project alone.
sources_where_mcp_only(mcp_id, user_id) == {<<"mcp_id", mcp_id>>}

\* list_ingested_sources: the unique sources of the chunks of the scope.
sources_where(mcp_id, user_id) == {<<"mcp_id", mcp_id>>, <<"user_id", user_id>>}

list_ingested_sources(h, clerk, mcp_id, db_ok, get_ok) ==
    /\ Free(h)
    /\ LET r == Begin("list_ingested_sources", clerk, mcp_id)
           u == get_current_db_user(clerk, db_ok)
           vs == get_vector_store
           where == sources_where(mcp_id, u.id)
           ru == [r EXCEPT !.user_id = u.id]
           rw == [ru EXCEPT !.where = where,
                            !.search = IF get_ok THEN "ok" ELSE "raised"]
           sources == sorted({m.source : m \in get_metadatas(index, where)})
       IN /\ users' = u.users
          /\ client_cache' = IF u.ok THEN vs.cache ELSE client_cache
          /\ hs' = [hs EXCEPT ![h] =
                IF ~u.ok THEN Respond(r, 500, "user commit failed", JNull)
                ELSE IF ~vs.ok THEN Respond(ru, 500, "vector store unavailable", JNull)
                ELSE IF ~get_ok
                     THEN Respond(rw, 500, "Failed to retrieve ingested sources.", JNull)
                ELSE Respond(rw, 200, "",
                             JList([i \in 1..Len(sources) |->
                                      JObj([source |-> JStr(sources[i])])]))]
    /\ UNCHANGED <<mcps, mcp_seq, now, index, temp_files, chroma_host, remote_up>>

(***************************************************************************)
(* routers/context.py retrieve_context (POST /context/retrieve).  It       *)
(* authenticates the clerk id only, opens its own Chroma on the collection *)
(* mcp_context_documents, which no handler writes, and searches it with    *)
(* the query and k of the request: RetrievalRequest has no other field.    *)
(***************************************************************************)
mcp_context_documents == {}
RetrievalDefaultK == 4

RetrievedChunk(c) ==
    JObj([page_content |-> JStr(c.text),
          metadata |-> JObj([source |-> JStr(c.metadata.source),
                             user_id |-> JNum(c.metadata.user_id),
                             mcp_id |-> JNum(c.metadata.mcp_id)])])

retrieve_context(h, clerk, k, search_ok) ==
    /\ Free(h)
    /\ LET r == [Begin("retrieve_context", clerk, 0) EXCEPT
                    !.where = {}, !.search = IF search_ok THEN "ok" ELSE "raised"]
       IN IF search_ok
          THEN \E results \in similarity_search(mcp_context_documents, k, {}) :
                 hs' = [hs EXCEPT ![h] =
                    Respond([r EXCEPT !.results = results], 200, "",
                            JList([i \in 1..Len(results) |->
                                     RetrievedChunk(CHOOSE c \in mcp_context_documents :
                                                       c.id = results[i])]))]
          ELSE hs' = [hs EXCEPT ![h] = Respond(r, 500, "Failed to retrieve context", JNull)]
    /\ UNCHANGED <<users, mcps, mcp_seq, now, index, temp_files, chroma_host,
                   remote_up, client_cache>>

(***************************************************************************)
(* JSON text.  json.dumps writes a value as text, here the sequence of its *)
(* tokens; json.loads reads the tokens back.  The keys of an object come   *)
(* in the order the dict holds them, which for a dict loaded from a JSONB  *)
(* column is the order of the column: shorter keys first.                  *)
(***************************************************************************)
TokPunct(c) == <<"punct", c>>
TokStr(s) == <<"string", s>>
TokNum(n) == <<"number", n>>
TokNull == <<"literal", "null">>

KeyOrder ==
    <<"input", "output", "examples", "constraints", "system_prompt",
      "input_schema_description", "output_schema_description">>

EmptyObj == JObj([k \in {} |-> JNull])

\* The texts of parts, with a comma between one and the next.
RECURSIVE Separated(_)
Separated(parts) ==
    IF Len(parts) = 0 THEN <<>>
    ELSE IF Len(parts) = 1 THEN parts[1]
    ELSE parts[1] \o <<TokPunct(",")>> \o Separated(Tail(parts))

\* A serializer that writes an empty list as null.
RECURSIVE json_dumps_empty_as_null(_)
json_dumps_empty_as_null(v) ==
    CASE Kind(v) = "null" -> <<TokNull>>
      [] Kind(v) = "str" -> <<TokStr(Val(v))>>
      [] Kind(v) = "num" -> <<TokNum(Val(v))>>
      [] Kind(v) = "list" ->
            IF Len(Val(v)) = 0 THEN <<TokNull>>
            ELSE <<TokPunct("[")>>
                 \o Separated([i \in 1..Len(Val(v)) |-> json_dumps_empty_as_null(Val(v)[i])])
                 \o <<TokPunct("]")>>
      [] OTHER ->
            LET ks == SelectSeq(KeyOrder, LAMBDA k : k \in DOMAIN Val(v))
            IN <<TokPunct("{")>>
               \o Separated([i \in 1..Len(ks) |->
                               <<TokStr(ks[i]), TokPunct(":")>>
                               \o json_dumps_empty_as_null(Val(v)[ks[i]])])
               \o <<TokPunct("}")>>

\* json.dumps(content): null, a string, a number, the items of a list in
\* their order between brackets, the members of an object between braces.
RECURSIVE json_dumps(_)
json_dumps(v) ==
    CASE Kind(v) = "null" -> <<TokNull>>
      [] Kind(v) = "str" -> <<TokStr(Val(v))>>
      [] Kind(v) = "num" -> <<TokNum(Val(v))>>
      [] Kind(v) = "list" ->
            <<TokPunct("[")>>
            \o Separated([i \in 1..Len(Val(v)) |-> json_dumps(Val(v)[i])])
            \o <<TokPunct("]")>>
      [] OTHER ->
            LET ks == SelectSeq(KeyOrder, LAMBDA k : k \in DOMAIN Val(v))
            IN <<TokPunct("{")>>
               \o Separated([i \in 1..Len(ks) |->
                               <<TokStr(ks[i]), TokPunct(":")>> \o json_dumps(Val(v)[ks[i]])])
               \o <<TokPunct("}")>>

\* json.loads(text), by recursive descent.  Each operator returns the value
\* it read and the tokens after it.
RECURSIVE parse_value(_), parse_elements(_, _), parse_members(_, _)
parse_value(toks) ==
    LET t == Head(toks)
    IN CASE t[1] = "literal" -> [value |-> JNull, rest |-> Tail(toks)]
         [] t[1] = "string" -> [value |-> JStr(t[2]), rest |-> Tail(toks)]
         [] t[1] = "number" -> [value |-> JNum(t[2]), rest |-> Tail(toks)]
         [] t[1] = "punct" /\ t[2] = "[" ->
               IF toks[2] = TokPunct("]")
               THEN [value |-> JList(<<>>), rest |-> SubSeq(toks, 3, Len(toks))]
               ELSE parse_elements(Tail(toks), <<>>)
         [] OTHER ->
               IF toks[2] = TokPunct("}")
               THEN [value |-> EmptyObj, rest |-> SubSeq(toks, 3, Len(toks))]
               ELSE parse_members(Tail(toks), [k \in {} |-> JNull])

\* toks begins an item of a list whose earlier items are acc.
parse_elements(toks, acc) ==
    LET e == parse_value(toks)
        items == Append(acc, e.value)
    IN IF Head(e.rest) = TokPunct(",")
       THEN parse_elements(Tail(e.rest), items)
       ELSE [value |-> JList(items), rest |-> Tail(e.rest)]

\* toks begins a member (key, colon, value) of an object whose earlier
\* members are acc.
parse_members(toks, acc) ==
    LET key == toks[1][2]
        e == parse_value(SubSeq(toks, 3, Len(toks)))
        fields == [k \in (DOMAIN acc) \cup {key} |-> IF k = key THEN e.value ELSE acc[k]]
    IN IF Head(e.rest) = TokPunct(",")
       THEN parse_members(Tail(e.rest), fields)
       ELSE [value |-> JObj(fields), rest |-> Tail(e.rest)]

json_loads(text) == parse_value(text).value

\* JSONResponse(content=...): the body is the text json.dumps renders.
JSONResponse(content) == <<"json_text", json_dumps(content)>>

\* yaml.dump(...): text holding YAML, tagged with the value it denotes.
yaml_dump(v) == <<"yaml_text", v>>

(***************************************************************************)
(* routers/mcp.py: the reads of the project record.  Each selects the row  *)
(* by id and owner and answers in one step.  name and domain of the row    *)
(* are not modelled; the texts the exports build from them are left out.   *)
(***************************************************************************)
\* definition.get(key, default)
DictGet(d, key, default) == IF key \in Keys(d) THEN Val(d)[key] ELSE default

get_mcp_by_id(h, clerk, mcp_id, db_ok) ==
    /\ Free(h)
    /\ LET r == Begin("get_mcp_by_id", clerk, mcp_id)
           u == get_current_db_user(clerk, db_ok)
           ru == [r EXCEPT !.user_id = u.id]
           row == OwnedRow(mcp_id, u.id)
       IN /\ users' = u.users
          /\ hs' = [hs EXCEPT ![h] =
                IF ~u.ok THEN Respond(r, 500, "user commit failed", JNull)
                ELSE IF row = NoRow THEN Respond(ru, 404, "not found", JNull)
                ELSE Respond(ru, 200, "", RowJson(mcp_id, row))]
    /\ UNCHANGED <<mcps, mcp_seq, now, index, temp_files, chroma_host, remote_up,
                   client_cache>>

\* select(Mcp).where(Mcp.owner_id == user.id).all(), in the order of the ids
OwnedIds(user_id) ==
    SelectSeq([i \in 1..MaxMcps |-> i],
              LAMBDA m : mcps[m] # NoRow /\ mcps[m].owner_id = user_id)

list_user_mcps(h, clerk, db_ok) ==
    /\ Free(h)
    /\ LET r == Begin("list_user_mcps", clerk, 0)
           u == get_current_db_user(clerk, db_ok)
           ru == [r EXCEPT !.user_id = u.id]
           ids == OwnedIds(u.id)
       IN /\ users' = u.users
          /\ hs' = [hs EXCEPT ![h] =
                IF ~u.ok THEN Respond(r, 500, "user commit failed", JNull)
                ELSE Respond(ru, 200, "",
                             JList([i \in 1..Len(ids) |-> RowJson(ids[i], mcps[ids[i]])]))]
    /\ UNCHANGED <<mcps, mcp_seq, now, index, temp_files, chroma_host, remote_up,
                   client_cache>>

NoDefinitionContent ==
    JStr("**Error:** No structured definition (definition_json) found for this MCP.")

\* The Markdown built from a definition, as the list of its parts.
markdown_content(row) ==
    LET definition == row.definition_json
        constraints == DictGet(definition, "constraints", JList(<<>>))
        examples == DictGet(definition, "examples", JNull)
    IN JList(<<JStr(row.goal),
               DictGet(definition, "system_prompt", JStr("Not defined.")),
               DictGet(definition, "input_schema_description", JStr("Not defined.")),
               DictGet(definition, "output_schema_description", JStr("Not defined.")),
               IF Truthy(constraints) THEN constraints ELSE JStr("No constraints defined."),
               IF Truthy(examples) THEN examples ELSE JStr("No examples provided.")>>)

export_mcp_markdown(h, clerk, mcp_id, db_ok) ==
    /\ Free(h)
    /\ LET r == Begin("export_mcp_markdown", clerk, mcp_id)
           u == get_current_db_user(clerk, db_ok)
           ru == [r EXCEPT !.user_id = u.id]
           row == OwnedRow(mcp_id, u.id)
       IN /\ users' = u.users
          /\ hs' = [hs EXCEPT ![h] =
                IF ~u.ok THEN Respond(r, 500, "user commit failed", JNull)
                ELSE IF row = NoRow THEN Respond(ru, 404, "not found", JNull)
                ELSE IF ~Truthy(row.definition_json)
                     THEN Respond(ru, 200, "",
                                  JObj([filename |-> JStr("no_definition.md"),
                                        content |-> NoDefinitionContent]))
                ELSE IF Kind(row.definition_json) # "obj"
                     THEN Respond(ru, 500, "Internal Server Error", JNull)
                ELSE Respond(ru, 200, "",
                             JObj([filename |-> JStr("definition.md"),
                                   content |-> markdown_content(row)]))]
    /\ UNCHANGED <<mcps, mcp_seq, now, index, temp_files, chroma_host, remote_up,
                   client_cache>>

export_mcp_json(h, clerk, mcp_id, db_ok) ==
    /\ Free(h)
    /\ LET r == Begin("export_mcp_json", clerk, mcp_id)
           u == get_current_db_user(clerk, db_ok)
           ru == [r EXCEPT !.user_id = u.id]
           row == OwnedRow(mcp_id, u.id)
       IN /\ users' = u.users
          /\ hs' = [hs EXCEPT ![h] =
                IF ~u.ok THEN Respond(r, 500, "user commit failed", JNull)
                ELSE IF row = NoRow THEN Respond(ru, 404, "not found", JNull)
                ELSE IF ~Truthy(row.definition_json)
                     THEN Respond(ru, 404, "No structured definition", JNull)
                ELSE Respond(ru, 200, "", JSONResponse(row.definition_json))]
    /\ UNCHANGED <<mcps, mcp_seq, now, index, temp_files, chroma_host, remote_up,
                   client_cache>>

export_mcp_yaml(h, clerk, mcp_id, db_ok) ==
    /\ Free(h)
    /\ LET r == Begin("export_mcp_yaml", clerk, mcp_id)
           u == get_current_db_user(clerk, db_ok)
           ru == [r EXCEPT !.user_id = u.id]
           row == OwnedRow(mcp_id, u.id)
       IN /\ users' = u.users
          /\ hs' = [hs EXCEPT ![h] =
                IF ~u.ok THEN Respond(r, 500, "user commit failed", JNull)
                ELSE IF row = NoRow THEN Respond(ru, 404, "not found", JNull)
                ELSE IF ~Truthy(row.definition_json)
                     THEN Respond(ru, 404, "No structured definition", JNull)
                ELSE Respond(ru, 200, "", yaml_dump(row.definition_json))]
    /\ UNCHANGED <<mcps, mcp_seq, now, index, temp_files, chroma_host, remote_up,
                   client_cache>>

(***************************************************************************)
(* routers/validation.py test_mcp_run: the row by id and owner, the system *)
(* prompt of its definition, then the model (awaited) on that prompt and   *)
(* the input of the request.                                               *)
(***************************************************************************)
test_mcp_run_fetch(h, clerk, mcp_id, db_ok) ==
    /\ Free(h)
    /\ LET r == Begin("test_mcp_run", clerk, mcp_id)
           u == get_current_db_user(clerk, db_ok)
           ru == [r EXCEPT !.user_id = u.id]
           row == OwnedRow(mcp_id, u.id)
           definition == row.definition_json
       IN /\ users' = u.users
          /\ hs' = [hs EXCEPT ![h] =
                IF ~u.ok THEN Respond(r, 500, "user commit failed", JNull)
                ELSE IF row = NoRow THEN Respond(ru, 404, "not found", JNull)
                ELSE IF ~Truthy(definition) \/ "system_prompt" \notin Keys(definition)
                     THEN Respond(ru, 400, "MCP definition or system prompt is missing.",
                                  JNull)
                ELSE IF ~Truthy(Val(definition).system_prompt)
                     THEN Respond(ru, 400, "System prompt within MCP definition is empty.",
                                  JNull)
                ELSE [ru EXCEPT !.pc = "test_run_invoke",
                                !.context = <<Val(definition).system_prompt>>]]
    /\ UNCHANGED <<mcps, mcp_seq, now, index, temp_files, chroma_host, remote_up,
                   client_cache>>

test_mcp_run_invoke(h, outcome) ==
    /\ hs[h].pc = "test_run_invoke"
    /\ LET r == [hs[h] EXCEPT !.llm = outcome]
       IN hs' = [hs EXCEPT ![h] =
             IF outcome = LlmRaises THEN Respond(r, 500, "Failed to execute test run", JNull)
             ELSE Respond(r, 200, "",
                          JObj([llm_output |-> outcome[2],
                                system_prompt_used |-> r.context[1]]))]
    /\ UNCHANGED <<users, mcps, mcp_seq, now, index, temp_files, chroma_host,
                   remote_up, client_cache>>

(***************************************************************************)
(* routers/ai_assistance.py generate_component: one field of a definition  *)
(* generated on its own.  The parser is chosen by the field: the text      *)
(* fields take StrOutputParser, constraints and examples JsonOutputParser. *)
(* The parser and the prompt are built before the try block; whether the   *)
(* installed LangChain builds them for the format instructions of a JSON   *)
(* field is not decided by this code, so both outcomes are modelled.       *)
(***************************************************************************)
ComponentFields == {"system_prompt", "constraints", "examples", "roles"}
JsonFields == {"constraints", "examples"}

ExampleOne == JObj([input |-> JStr("i1"), output |-> JStr("o1")])
ExampleNoOutput == JObj([input |-> JStr("i1")])
ComponentLlmOutcomes ==
    {LlmRaises, RawText,
     RawJson(JList(<<JStr("c1"), JStr("c2")>>)),
     RawJson(JList(<<JStr("c1"), JNum(7)>>)),
     RawJson(JObj([examples |-> JList(<<ExampleOne>>)])),
     RawJson(JObj([examples |-> JList(<<ExampleNoOutput>>)])),
     RawJson(DefMissingConstraints)}

\* StrOutputParser: the text of the model, whatever it holds.
StrOutputParser(raw) ==
    IF raw[1] = "text" THEN [ok |-> TRUE, value |-> raw[2]]
                       ELSE [ok |-> TRUE, value |-> <<"str", json_dumps(raw[2])>>]

\* parser of the chain built for target_field
ComponentParser(target_field, raw) ==
    IF target_field \in JsonFields THEN JsonOutputParser(raw) ELSE StrOutputParser(raw)

\* The data returned for what the chain produced: the list under the key
\* examples when examples were asked for and a dict with that key came.
generated_data(target_field, produced) ==
    IF target_field = "examples" /\ "examples" \in Keys(produced)
    THEN Val(produced).examples ELSE produced

generate_component_start(h, clerk, target_field, db_ok, prompt_ok) ==
    /\ Free(h)
    /\ LET r == [Begin("generate_component", clerk, 0) EXCEPT !.source = target_field]
           u == get_current_db_user(clerk, db_ok)
           ru == [r EXCEPT !.user_id = u.id]
       IN /\ users' = u.users
          /\ hs' = [hs EXCEPT ![h] =
                IF ~u.ok THEN Respond(r, 500, "user commit failed", JNull)
                ELSE IF target_field \notin {"system_prompt", "input_schema_description",
                                             "output_schema_description", "constraints",
                                             "examples"}
                     THEN Respond(ru, 400, "Invalid field_to_generate specified", JNull)
                ELSE IF target_field \in JsonFields /\ ~prompt_ok
                     THEN Respond(ru, 500, "Internal Server Error", JNull)
                ELSE [ru EXCEPT !.pc = "component_invoke"]]
    /\ UNCHANGED <<mcps, mcp_seq, now, index, temp_files, chroma_host, remote_up,
                   client_cache>>

\* The try block: the chain (prompt | llm | parser), awaited, and the
\* response built from what it produced.
generate_component_invoke(h, outcome) ==
    /\ hs[h].pc = "component_invoke"
    /\ LET r == [hs[h] EXCEPT !.llm = outcome]
           parsed == ComponentParser(r.source, outcome)
       IN hs' = [hs EXCEPT ![h] =
             IF outcome = LlmRaises \/ ~parsed.ok
             THEN Respond(r, 500, "Failed to generate component", JNull)
             ELSE Respond([r EXCEPT !.generated = parsed.value], 200, "",
                          JObj([generated_data |-> generated_data(r.source, parsed.value)]))]
    /\ UNCHANGED <<users, mcps, mcp_seq, now, index, temp_files, chroma_host,
                   remote_up, client_cache>>

(***************************************************************************)
(* Specifications.  Requests are served one after another by handler h1.   *)
(* Spec: the definition store (project records and generation).            *)
(* SpecIngest: ingestion and the reads of the vector index.                *)
(***************************************************************************)
\* Whether creating the caller's user row can fail: only when there is none.
DbOutcomes(c) == IF users[c] = 0 THEN BOOLEAN ELSE {TRUE}

Next ==
    \E h \in SeqHandlers :
        \/ \E c \in Clerks, g \in Prompts, ok \in BOOLEAN : create_mcp(h, c, g, ok)
        \/ \E c \in Clerks, g \in Prompts, ok \in BOOLEAN : \E d \in DbOutcomes(c) :
              initiate_mcp_from_prompt(h, c, g, d, ok)
        \/ \E c \in Clerks, m \in RequestMcpIds, u \in UpdateRequests : \E d \in DbOutcomes(c) :
              update_mcp_fetch(h, c, m, u, d)
        \/ \E ok \in BOOLEAN : update_mcp_commit(h, ok)
        \/ \E c \in Clerks, m \in RequestMcpIds, ok \in BOOLEAN : \E d \in DbOutcomes(c) :
              delete_mcp(h, c, m, d, ok)
        \/ \E c \in Clerks, m \in RequestMcpIds : \E d \in DbOutcomes(c) :
              generate_mcp_json_fetch(h, c, m, d)
        \/ \E ok \in BOOLEAN : generate_mcp_json_retrieve(h, ok)
        \/ \E o \in LlmOutcomes : generate_mcp_json_invoke(h, o)
        \/ \E ok \in BOOLEAN : generate_mcp_json_commit(h, ok)

Spec == Init /\ [][Next]_vars

\* In SpecIngest the model's output never parses: generation stops at step 6
\* and the project rows stay as InitIngest sets them.
IngestLlmOutcomes == {LlmRaises, RawText}
IngestMcpIds == {1, 2}

NextIngest ==
    \E h \in SeqHandlers :
        \/ \E c \in Clerks, m \in IngestMcpIds, t \in ContentTypes, f \in Filenames,
              ok \in BOOLEAN : \E d \in DbOutcomes(c) :
              ingest_file_start(h, c, m, t, f, d, ok)
        \/ \E l \in FileLoaderOutcomes : ingest_file_load(h, l)
        \/ \E ok \in BOOLEAN : ingest_file_write(h, ok)
        \/ \E c \in Clerks, m \in IngestMcpIds, u \in Urls : \E d \in DbOutcomes(c) :
              ingest_url_start(h, c, m, u, d)
        \/ \E l \in UrlLoaderOutcomes : ingest_url_load(h, l)
        \/ \E ok \in BOOLEAN : ingest_url_write(h, ok)
        \/ \E c \in Clerks, m \in IngestMcpIds, ok \in BOOLEAN : \E d \in DbOutcomes(c) :
              list_ingested_sources(h, c, m, d, ok)
        \/ \E c \in Clerks, ok \in BOOLEAN : retrieve_context(h, c, RetrievalDefaultK, ok)
        \/ \E c \in Clerks, m \in IngestMcpIds : \E d \in DbOutcomes(c) :
              generate_mcp_json_fetch(h, c, m, d)
        \/ \E ok \in BOOLEAN : generate_mcp_json_retrieve(h, ok)
        \/ \E o \in IngestLlmOutcomes : generate_mcp_json_invoke(h, o)

\* The store holds clerk_a's user row and one project of that user;
\* clerk_b has made no request yet and project 2 does not exist.
InitIngest ==
    /\ users = [c \in Clerks |-> IF c = "clerk_a" THEN 1 ELSE 0]
    /\ mcps = [m \in McpIds |->
                 IF m = 1 THEN [owner_id |-> 1, goal |-> "g1", definition_json |-> JNull,
                                created_at |-> 1, updated_at |-> 1]
                          ELSE NoRow]
    /\ mcp_seq = 1
    /\ now = 2
    /\ index = {}
    /\ temp_files = {}
    /\ chroma_host = FALSE
    /\ remote_up = TRUE
    /\ client_cache = "none"
    /\ hs = [h \in Handlers |-> Idle]

SpecIngest == InitIngest /\ [][NextIngest]_vars

(***************************************************************************)
(* SpecRace: two handlers serve requests of the owner of one project at    *)
(* the same time.  Each request has its own session: it loads the row in   *)
(* its first step and commits in a later one, and the steps of the two     *)
(* requests interleave at the awaits and at the store.                     *)
(***************************************************************************)
RaceClerks == {"clerk_a"}
RaceMcpIds == {1}
RaceLlmOutcomes == {RawJson(DefA), RawJson(DefB)}
RaceUpdates ==
    {[goal |-> JStr("g2"), definition_json |-> Unset],
     [goal |-> Unset, definition_json |-> DefB]}

NextRace ==
    \E h \in Handlers :
        \/ \E c \in RaceClerks, m \in RaceMcpIds, u \in RaceUpdates :
              update_mcp_fetch(h, c, m, u, TRUE)
        \/ \E ok \in BOOLEAN : update_mcp_commit(h, ok)
        \/ \E c \in RaceClerks, m \in RaceMcpIds : generate_mcp_json_fetch(h, c, m, TRUE)
        \/ \E ok \in BOOLEAN : generate_mcp_json_retrieve(h, ok)
        \/ \E o \in RaceLlmOutcomes : generate_mcp_json_invoke(h, o)
        \/ \E ok \in BOOLEAN : generate_mcp_json_commit(h, ok)

\* The store after clerk_a created project 1 and generated DefA for it.
InitRace ==
    /\ users = [c \in Clerks |-> IF c = "clerk_a" THEN 1 ELSE 0]
    /\ mcps = [m \in McpIds |->
                 IF m = 1 THEN [owner_id |-> 1, goal |-> "g1", definition_json |-> DefA,
                                created_at |-> 1, updated_at |-> 2]
                          ELSE NoRow]
    /\ mcp_seq = 1
    /\ now = 3
    /\ index = {}
    /\ temp_files = {}
    /\ chroma_host = FALSE
    /\ remote_up = TRUE
    /\ client_cache = "local"
    /\ hs = [h \in Handlers |-> Idle]

SpecRace == InitRace /\ [][NextRace]_vars

(***************************************************************************)
(* SpecGateway: a fresh process, with or without CHROMA_HOST, whose two    *)
(* handlers resolve get_vector_store_dependency.                           *)
(***************************************************************************)
NextGateway ==
    \/ \E h \in Handlers, c \in Clerks : get_vector_store_dependency_call(h, c)
    \/ \E h \in Handlers : get_vector_store_run(h)
    \/ \E h \in Handlers, ok \in BOOLEAN : get_vector_store_dependency_return(h, ok)
    \/ \E h \in Handlers : health_check(h)
    \/ remote_index_changes

InitGateway ==
    /\ users = [c \in Clerks |-> 0]
    /\ mcps = [m \in McpIds |-> NoRow]
    /\ mcp_seq = 0
    /\ now = 1
    /\ index = {}
    /\ temp_files = {}
    /\ chroma_host \in BOOLEAN
    /\ remote_up \in BOOLEAN
    /\ chroma_host \/ remote_up
    /\ client_cache = "none"
    /\ hs = [h \in Handlers |-> Idle]

SpecGateway == InitGateway /\ [][NextGateway]_vars

(***************************************************************************)
(* SpecExport: the reads of the project record (the record itself, the     *)
(* list, the three exports, the test run) among the requests that write    *)
(* it, for two users who own one project each.                             *)
(***************************************************************************)
ExportUpdates == {[goal |-> Unset, definition_json |-> EmptyObj]}
ExportLlmOutcomes == {RawJson(DefA), RawJson(DefB), RawJson(DefNoExamples)}
TestLlmOutcomes == {LlmRaises, RawText}

NextExport ==
    \E h \in SeqHandlers :
        \/ \E c \in Clerks, m \in RequestMcpIds : get_mcp_by_id(h, c, m, TRUE)
        \/ \E c \in Clerks : list_user_mcps(h, c, TRUE)
        \/ \E c \in Clerks, m \in RequestMcpIds : export_mcp_markdown(h, c, m, TRUE)
        \/ \E c \in Clerks, m \in RequestMcpIds : export_mcp_json(h, c, m, TRUE)
        \/ \E c \in Clerks, m \in RequestMcpIds : export_mcp_yaml(h, c, m, TRUE)
        \/ \E c \in Clerks, m \in RequestMcpIds : test_mcp_run_fetch(h, c, m, TRUE)
        \/ \E o \in TestLlmOutcomes : test_mcp_run_invoke(h, o)
        \/ \E c \in Clerks, m \in RequestMcpIds, u \in ExportUpdates :
              update_mcp_fetch(h, c, m, u, TRUE)
        \/ update_mcp_commit(h, TRUE)
        \/ \E c \in Clerks, m \in RequestMcpIds : delete_mcp(h, c, m, TRUE, TRUE)
        \/ \E c \in Clerks, m \in RequestMcpIds : generate_mcp_json_fetch(h, c, m, TRUE)
        \/ generate_mcp_json_retrieve(h, TRUE)
        \/ \E o \in ExportLlmOutcomes : generate_mcp_json_invoke(h, o)
        \/ generate_mcp_json_commit(h, TRUE)

\* The store after clerk_a created project 1 and clerk_b project 2.
InitExport ==
    /\ users = [c \in Clerks |-> IF c = "clerk_a" THEN 1 ELSE 2]
    /\ mcps = [m \in McpIds |->
                 IF m \in {1, 2}
                 THEN [owner_id |-> m, goal |-> "g1", definition_json |-> JNull,
                       created_at |-> m, updated_at |-> m]
                 ELSE NoRow]
    /\ mcp_seq = 2
    /\ now = 3
    /\ index = {}
    /\ temp_files = {}
    /\ chroma_host = FALSE
    /\ remote_up = TRUE
    /\ client_cache = "local"
    /\ hs = [h \in Handlers |-> Idle]

SpecExport == InitExport /\ [][NextExport]_vars

(***************************************************************************)
(* SpecLifecycle: ingestion and the reads of the index over the life of a  *)
(* project: clerk_a owns project 1, which may be updated and deleted;      *)
(* project 2 was never created; both clerks ingest under either id.        *)
(***************************************************************************)
LifecycleMcpIds == {1, 2}
LifecycleDocuments == {Loaded(<< <<"t1">> >>)}
LifecycleUpdates == {[goal |-> JStr("g2"), definition_json |-> Unset]}

NextLifecycle ==
    \E h \in SeqHandlers :
        \/ \E c \in Clerks, m \in LifecycleMcpIds, f \in Filenames :
              ingest_file_start(h, c, m, "text/plain", f, TRUE, TRUE)
        \/ \E l \in LifecycleDocuments : ingest_file_load(h, l)
        \/ \E ok \in BOOLEAN : ingest_file_write(h, ok)
        \/ \E c \in Clerks, m \in LifecycleMcpIds, u \in Urls : ingest_url_start(h, c, m, u, TRUE)
        \/ \E l \in LifecycleDocuments : ingest_url_load(h, l)
        \/ \E ok \in BOOLEAN : ingest_url_write(h, ok)
        \/ \E c \in Clerks, m \in LifecycleMcpIds : list_ingested_sources(h, c, m, TRUE, TRUE)
        \/ \E c \in Clerks : retrieve_context(h, c, RetrievalDefaultK, TRUE)
        \/ \E c \in Clerks, m \in LifecycleMcpIds : generate_mcp_json_fetch(h, c, m, TRUE)
        \/ generate_mcp_json_retrieve(h, TRUE)
        \/ \E o \in IngestLlmOutcomes : generate_mcp_json_invoke(h, o)
        \/ \E c \in Clerks, m \in LifecycleMcpIds, u \in LifecycleUpdates :
              update_mcp_fetch(h, c, m, u, TRUE)
        \/ update_mcp_commit(h, TRUE)
        \/ \E c \in Clerks, m \in LifecycleMcpIds : delete_mcp(h, c, m, TRUE, TRUE)

\* The store after both clerks signed in and clerk_a created project 1.
InitLifecycle ==
    /\ users = [c \in Clerks |-> IF c = "clerk_a" THEN 1 ELSE 2]
    /\ mcps = [m \in McpIds |->
                 IF m = 1 THEN [owner_id |-> 1, goal |-> "g1", definition_json |-> JNull,
                                created_at |-> 1, updated_at |-> 1]
                          ELSE NoRow]
    /\ mcp_seq = 1
    /\ now = 2
    /\ index = {}
    /\ temp_files = {}
    /\ chroma_host = FALSE
    /\ remote_up = TRUE
    /\ client_cache = "local"
    /\ hs = [h \in Handlers |-> Idle]

SpecLifecycle == InitLifecycle /\ [][NextLifecycle]_vars

(***************************************************************************)
(* SpecAssist: the single-field generation of the assistance router, from  *)
(* a fresh store.                                                          *)
(***************************************************************************)
NextAssist ==
    \E h \in SeqHandlers :
        \/ \E c \in Clerks, f \in ComponentFields, p \in BOOLEAN : \E d \in DbOutcomes(c) :
              generate_component_start(h, c, f, d, p)
        \/ \E o \in ComponentLlmOutcomes : generate_component_invoke(h, o)

SpecAssist == Init /\ [][NextAssist]_vars

(***************************************************************************)
(* Properties of generation and of the project record, checked under Spec. *)
(***************************************************************************)
\* A generate request that has ended.
GenerateEnded(h) == hs[h].pc = "done" /\ hs[h].op = "generate_mcp_json"

\* The model's output parsed as JSON but does not match the schema.
FailedValidation(h) == hs[h].llm[1] = "json" /\ ~McpDefinitionValid(hs[h].llm[2])

\* The model raised, or its output is not JSON.
FailedInvocation(h) == hs[h].llm = LlmRaises \/ hs[h].llm[1] = "text"

\* C1: a generate request whose model output parses as JSON but fails the
\* schema leaves definition_json, once the request has ended, equal to the
\* value it had before the request (null included).
C1_NoPartialCommit ==
    \A h \in Handlers :
        (GenerateEnded(h) /\ FailedValidation(h)) =>
            mcps[hs[h].mcp_id].definition_json = hs[h].pre[hs[h].mcp_id].definition_json

\* C2: a generate request whose model invocation raises, or whose output is
\* not JSON, ends with HTTP 500 carrying that cause, and the row of the
\* project (definition_json and updated_at with it) is as it was before.
C2_InvocationFailurePersistsNothing ==
    \A h \in Handlers :
        (GenerateEnded(h) /\ FailedInvocation(h)) =>
            /\ hs[h].resp.status = 500
            /\ hs[h].resp.detail =
                  (IF hs[h].llm = LlmRaises THEN "model error" ELSE "output is not JSON")
            /\ mcps[hs[h].mcp_id].definition_json =
                  hs[h].pre[hs[h].mcp_id].definition_json
            /\ mcps[hs[h].mcp_id].updated_at = hs[h].pre[hs[h].mcp_id].updated_at

\* A project that holds a definition, and a generate request for it that
\* ended on output that is not JSON.
C2_Witness ==
    \E h \in Handlers :
        /\ GenerateEnded(h)
        /\ hs[h].llm = RawText
        /\ hs[h].resp.status = 500
        /\ hs[h].pre[hs[h].mcp_id].definition_json # JNull

\* All five keys are there and every value has the type of the schema.
FullDefinition(v) == McpDefinitionValid(v) /\ DefinitionFields \subseteq Keys(v)

\* C6: after a generate request that ended successfully, the definition
\* persisted in definition_json and the one returned both hold all five
\* keys with values of the right types.
C6_SuccessStoresAndReturnsFullDefinition ==
    \A h \in Handlers :
        (GenerateEnded(h) /\ hs[h].resp.status = 200) =>
            /\ FullDefinition(mcps[hs[h].mcp_id].definition_json)
            /\ FullDefinition(Val(hs[h].resp.body).definition_json)

\* C7: the definition_json of every project record is null or a value
\* that deserializes against McpDefinition.
C7_DefinitionNullOrSchemaValid ==
    \A m \in McpIds :
        mcps[m].definition_json = JNull \/ McpDefinitionValid(mcps[m].definition_json)

\* The step is the commit of a generate request for project m.
GenerateCommits(h, m) ==
    hs[h].pc = "generate_commit" /\ hs[h].mcp_id = m /\ hs'[h].pc = "done"

\* The step is the commit of an update request for project m whose body
\* gives definition_json.
UpdateCommitsDefinition(h, m) ==
    /\ hs[h].pc = "update_commit" /\ hs[h].mcp_id = m /\ hs'[h].pc = "done"
    /\ hs[h].update.definition_json # Unset

\* The step creates the row of project m.
Creates(m) == mcps[m] = NoRow /\ mcps'[m] # NoRow

\* The step changes the definition_json of the existing row of project m.
ChangesDefinition(m) ==
    /\ mcps[m] # NoRow /\ mcps'[m] # NoRow
    /\ mcps'[m].definition_json # mcps[m].definition_json

\* C8 as stated: definition_json is null at creation and is changed only by
\* a generate run that succeeds; no other operation changes it.
C8_OnlySuccessfulGenerateWritesDefinition ==
    [][\A m \in McpIds :
          /\ Creates(m) => mcps'[m].definition_json = JNull
          /\ ChangesDefinition(m) =>
                \E h \in Handlers : GenerateCommits(h, m) /\ hs'[h].resp.status = 200
      ]_vars

\* C8, amended: definition_json is null at creation and is changed only by
\* the commit of a generate request (whatever the request then answers) or
\* by the commit of an update_mcp request whose body gives definition_json.
C8_OnlyGenerateOrUpdateWritesDefinition ==
    [][\A m \in McpIds :
          /\ Creates(m) => mcps'[m].definition_json = JNull
          /\ ChangesDefinition(m) =>
                \E h \in Handlers : GenerateCommits(h, m) \/ UpdateCommitsDefinition(h, m)
      ]_vars

\* An update_mcp request that gave definition_json and replaced the value.
C8_Witness ==
    \E h \in Handlers :
        /\ hs[h].pc = "done" /\ hs[h].op = "update_mcp" /\ hs[h].resp.status = 200
        /\ hs[h].update.definition_json # Unset
        /\ mcps[hs[h].mcp_id].definition_json = hs[h].update.definition_json
        /\ hs[h].pre[hs[h].mcp_id].definition_json # hs[h].update.definition_json

(***************************************************************************)
(* Properties of ingestion and of the reads of the vector index, checked   *)
(* under SpecIngest.                                                       *)
(***************************************************************************)
\* The fields a where-filter constrains.
FilterFields(where) == {p[1] : p \in where}

\* The chunks of the scope of the request handler h holds.
InScope(h) ==
    {c \in index : c.metadata.user_id = hs[h].user_id /\ c.metadata.mcp_id = hs[h].mcp_id}

\* The sources a response of list_ingested_sources names.
ListedSources(body) == {Val(Val(Val(body)[i]).source) : i \in 1..Len(Val(body))}

\* C3: the context retrieval of generate_mcp_json and list_ingested_sources
\* filter on user_id and mcp_id both, and return no chunk, and no source of
\* a chunk, that was ingested under another user or another project.
C3_ScopedReadsStayInScope ==
    \A h \in Handlers :
        /\ (hs[h].op = "generate_mcp_json" /\ hs[h].search # "none") =>
              /\ FilterFields(hs[h].where) = {"user_id", "mcp_id"}
              /\ \A i \in 1..Len(hs[h].results) : Chunk(hs[h].results[i]) \in InScope(h)
        /\ (hs[h].op = "list_ingested_sources" /\ hs[h].search # "none") =>
              FilterFields(hs[h].where) = {"user_id", "mcp_id"}
        /\ (hs[h].op = "list_ingested_sources" /\ hs[h].resp.status = 200) =>
              ListedSources(hs[h].resp.body) = {c.metadata.source : c \in InScope(h)}

\* A retrieval of generate_mcp_json that returned a chunk while the index
\* held a chunk of another user under the same project id.
C3_Witness ==
    \E h \in Handlers :
        /\ hs[h].op = "generate_mcp_json" /\ hs[h].search = "ok"
        /\ Len(hs[h].results) > 0
        /\ \E c \in index : /\ c.metadata.mcp_id = hs[h].mcp_id
                            /\ c.metadata.user_id # hs[h].user_id

\* C4: every retrieval applies the scope filter on user and project: a
\* request that did not ask for the unscoped variant (no request can ask
\* for it) is searched with a filter on user_id and mcp_id.
C4_RetrievalScopedByDefault ==
    \A h \in Handlers :
        (hs[h].op \in {"generate_mcp_json", "retrieve_context"} /\ hs[h].search # "none") =>
            FilterFields(hs[h].where) = {"user_id", "mcp_id"}

\* C5: every chunk ingest_file or ingest_url writes carries source, user_id
\* and mcp_id: the filename or URL of the request that writes it, the id of
\* the user row of its caller, and the project id it names.
C5_ChunksCarryScopeOfRequest ==
    [][\A c \in index' \ index :
          \E h \in Handlers :
              /\ hs[h].pc \in {"ingest_file_write", "ingest_url_write"}
              /\ DOMAIN c.metadata = {"source", "user_id", "mcp_id"}
              /\ c.metadata.source = hs[h].source
              /\ c.metadata.user_id = users[hs[h].clerk]
              /\ c.metadata.mcp_id = hs[h].mcp_id
      ]_vars

\* The index holds a chunk of an upload and a chunk of a URL, written for
\* two different users.
C5_Witness ==
    \E c1, c2 \in index :
        /\ c1.metadata.source \in Filenames
        /\ c2.metadata.source \in Urls
        /\ c1.metadata.user_id # c2.metadata.user_id

\* The step is the arrival at handler h of an ingest_file request whose
\* content type is none of PDF, DOCX and plain text, and whose dependencies
\* resolve (the caller's user row, the vector store).
RejectedUploadArrives(h) ==
    /\ Free(h) /\ hs'[h] # hs[h]
    /\ hs'[h].op = "ingest_file"
    /\ users'[hs'[h].clerk] # 0 /\ get_vector_store.ok
    /\ hs'[h].content_type \notin
          {"application/pdf",
           "application/vnd.openxmlformats-officedocument.wordprocessingml.document",
           "text/plain"}

\* C9 as stated: such a request ends with HTTP 400 and has no side effect:
\* no temporary file, no loader run, no chunk, no database record created
\* or changed.
C9_RejectedUploadHasNoSideEffect ==
    [][\A h \in Handlers :
          RejectedUploadArrives(h) =>
              /\ hs'[h].pc = "done" /\ hs'[h].resp.status = 400
              /\ hs'[h].loaded[1] = "none"
              /\ UNCHANGED <<temp_files, index, mcps, mcp_seq, users>>
      ]_vars

\* C9, amended: such a request ends with HTTP 400 in its first step, with
\* no temporary file, no loader run, no chunk and no project record created
\* or changed; in the user table it changes nothing but the row of a caller
\* who had none, which the request creates.
C9_RejectedUploadOnlyProvisionsCaller ==
    [][\A h \in Handlers :
          RejectedUploadArrives(h) =>
              /\ hs'[h].pc = "done" /\ hs'[h].resp.status = 400
              /\ hs'[h].loaded[1] = "none"
              /\ UNCHANGED <<temp_files, index, mcps, mcp_seq>>
              /\ \A c \in Clerks : (c # hs'[h].clerk \/ users[c] # 0) => users'[c] = users[c]
      ]_vars

\* A rejected upload that was the first request of its caller: the user
\* row was created, the answer is 400.
C9_Witness ==
    \E h \in Handlers :
        /\ hs[h].pc = "done" /\ hs[h].op = "ingest_file"
        /\ hs[h].content_type \notin allowed_content_types
        /\ hs[h].resp.status = 400
        /\ hs[h].pre_users[hs[h].clerk] = 0
        /\ users[hs[h].clerk] # 0

\* C10: an ingest whose loader fails to parse, returns no document, or
\* returns documents without text, ends in a non-error answer and writes
\* nothing to the index.
C10_EmptyExtractionIsNotAnError ==
    \A h \in Handlers :
        (/\ hs[h].pc = "done"
         /\ hs[h].op \in {"ingest_file", "ingest_url"}
         /\ hs[h].loaded \in {LoaderRaises, Loaded(<<>>), Loaded(<< <<>> >>)}) =>
            /\ hs[h].resp.status = 201
            /\ hs[h].written = 0

\* The numbers a response names in its message.
CountsNamed(resp) ==
    IF Kind(resp.body) = "obj" /\ "message" \in Keys(resp.body)
    THEN {Val(Val(Val(resp.body).message)[i]) :
             i \in {j \in 1..Len(Val(Val(resp.body).message)) :
                       Kind(Val(Val(resp.body).message)[j]) = "num"}}
    ELSE {}

\* An ingest request that ended on a failed write after i >= 1 chunks.
FailedMidBatch(h) ==
    /\ hs[h].pc = "done" /\ hs[h].op \in {"ingest_file", "ingest_url"}
    /\ hs[h].written >= 1 /\ hs[h].written < Len(hs[h].chunks)

\* C11: an ingest request that fails mid-batch, after i chunks were
\* written, tells the caller the count i in its response.
C11_PartialCountIsReported ==
    \A h \in Handlers : FailedMidBatch(h) => hs[h].written \in CountsNamed(hs[h].resp)

C16_SearchFailureFailsGenerate ==
    \A h \in Handlers :
        (GenerateEnded(h) /\ hs[h].search = "raised") =>
            /\ hs[h].resp.status >= 400
            /\ mcps[hs[h].mcp_id] = hs[h].pre[hs[h].mcp_id]

\* C17: the context block of generate_mcp_json is the placeholder sentence
\* when the retrieval returned no chunk, never empty; for n >= 1 chunks it
\* is their texts in retrieval order with the separator between them.
C17_ContextIsPlaceholderOrJoinedTexts ==
    \A h \in Handlers :
        (hs[h].op = "generate_mcp_json" /\ hs[h].search = "ok") =>
            LET n == Len(hs[h].results)
                c == hs[h].context
            IN /\ c # <<>>
               /\ n = 0 => c = <<Placeholder>>
               /\ n >= 1 =>
                    /\ Len(c) = 2 * n - 1
                    /\ \A i \in 1..n : c[2 * i - 1] = Chunk(hs[h].results[i]).text
                    /\ \A i \in 1..(n - 1) : c[2 * i] = Separator

\* A retrieval that returned two chunks, and a context block of their two
\* texts around one separator.
C17_Witness ==
    \E h \in Handlers :
        /\ hs[h].op = "generate_mcp_json" /\ hs[h].search = "ok"
        /\ Len(hs[h].results) = 2
        /\ Len(hs[h].context) = 3 /\ hs[h].context[2] = Separator

\* C18: after a successful generate call on a project that held a
\* definition, the stored definition is exactly the object this call
\* generated: no field of the earlier definition is left by merging.
C18_SecondGenerateReplacesFirst ==
    \A h \in Handlers :
        (/\ GenerateEnded(h) /\ hs[h].resp.status = 200
         /\ hs[h].pre[hs[h].mcp_id].definition_json # JNull) =>
            mcps[hs[h].mcp_id].definition_json = hs[h].generated

\* A project that held a definition with examples, and a successful
\* generate call whose object has no examples key: none is stored.
C18_Witness ==
    \E h \in Handlers :
        /\ GenerateEnded(h) /\ hs[h].resp.status = 200
        /\ hs[h].pre[hs[h].mcp_id].definition_json = DefA
        /\ hs[h].generated = DefNoExamples
        /\ mcps[hs[h].mcp_id].definition_json = DefNoExamples

(***************************************************************************)
(* Properties of concurrent requests for one project, checked under        *)
(* SpecRace.                                                               *)
(***************************************************************************)
\* Handler h holds an ended request whose commit the store accepted.
Committed(h) == hs[h].pc = "done" /\ hs[h].commit_at > 0

\* f and l hold committed requests for the same project, f's commit came
\* first, and l had loaded the row before f committed.
Raced(f, l) ==
    /\ f # l /\ Committed(f) /\ Committed(l)
    /\ hs[f].mcp_id = hs[l].mcp_id
    /\ hs[f].commit_at < hs[l].commit_at
    /\ hs[l].pre[hs[l].mcp_id].updated_at < hs[f].commit_at

\* f and l hold successful generate requests for the same project, f's
\* commit came first, and no third request wrote the row meanwhile: l had
\* loaded the version of the row f had loaded, or the one f committed.
GeneratedInTurn(f, l) ==
    /\ f # l /\ GenerateEnded(f) /\ GenerateEnded(l)
    /\ hs[f].resp.status = 200 /\ hs[l].resp.status = 200
    /\ hs[f].mcp_id = hs[l].mcp_id
    /\ hs[f].commit_at < hs[l].commit_at
    /\ hs[l].pre[hs[l].mcp_id].updated_at \in
          {hs[f].pre[hs[f].mcp_id].updated_at, hs[f].commit_at}

\* C19 as stated: when two generate requests for one project both succeed,
\* the stored definition is the object of the request that committed last.
C19_LastCommitWins ==
    \A f, l \in Handlers :
        GeneratedInTurn(f, l) => mcps[hs[l].mcp_id].definition_json = hs[l].generated

\* C19, amended: both commits are accepted with no check of the version of
\* the row, and the stored definition is as a whole the object of one of
\* the two requests: that of the later commit when that object differs from
\* the definition the request had loaded; otherwise the later commit does
\* not write definition_json, and the object of the earlier commit stays if
\* it was written after the later request had loaded the row.
C19_LastWrittenDefinitionWins ==
    \A f, l \in Handlers :
        GeneratedInTurn(f, l) =>
            LET m == hs[l].mcp_id
                lwrote == hs[l].generated # hs[l].pre[m].definition_json
                fwrote == /\ hs[f].generated # hs[f].pre[m].definition_json
                          /\ hs[l].pre[m].updated_at < hs[f].commit_at
            IN mcps[m].definition_json =
                  (IF lwrote THEN hs[l].generated
                   ELSE IF fwrote THEN hs[f].generated
                   ELSE hs[l].generated)

\* Two generate requests that both loaded the row before either committed,
\* generated different objects and both succeeded; the later object is
\* stored.
C19_Witness ==
    \E f, l \in Handlers :
        /\ GeneratedInTurn(f, l) /\ Raced(f, l)
        /\ hs[f].pre = hs[l].pre
        /\ hs[f].generated # hs[l].generated
        /\ mcps[hs[l].mcp_id].definition_json = hs[l].generated

\* Request h changed goal and nothing else.
ChangedGoalOnly(h) ==
    /\ hs[h].op = "update_mcp"
    /\ hs[h].update.definition_json = Unset
    /\ hs[h].update.goal # Unset
    /\ Val(hs[h].update.goal) # hs[h].pre[hs[h].mcp_id].goal

\* The definition request h assigned, Unset when it assigned none.
DefinitionAssigned(h) ==
    IF hs[h].op = "generate_mcp_json" THEN hs[h].generated
    ELSE IF hs[h].op = "update_mcp" THEN hs[h].update.definition_json
    ELSE Unset

\* Request h changed definition_json and nothing else.
ChangedDefinitionOnly(h) ==
    /\ DefinitionAssigned(h) # Unset
    /\ DefinitionAssigned(h) # hs[h].pre[hs[h].mcp_id].definition_json
    /\ hs[h].op = "update_mcp" => hs[h].update.goal = Unset

\* C20 as stated: when two requests loaded the record and then wrote
\* different fields, the record is as the later commit wrote it in full:
\* the field the earlier request changed has the value the later request
\* had loaded.
C20_EarlierFieldChangeIsLost ==
    \A f, l \in Handlers :
        Raced(f, l) =>
            /\ (ChangedGoalOnly(f) /\ ChangedDefinitionOnly(l)) =>
                  mcps[hs[l].mcp_id].goal = hs[l].pre[hs[l].mcp_id].goal
            /\ (ChangedDefinitionOnly(f) /\ ChangedGoalOnly(l)) =>
                  mcps[hs[l].mcp_id].definition_json =
                      hs[l].pre[hs[l].mcp_id].definition_json

\* C20, amended: each commit writes the columns its request changed, and
\* updated_at; when two requests loaded the record and then wrote different
\* fields, the stored record holds both changes.
C20_DistinctFieldChangesBothStay ==
    \A f, l \in Handlers :
        Raced(f, l) =>
            /\ (ChangedGoalOnly(f) /\ ChangedDefinitionOnly(l)) =>
                  /\ mcps[hs[l].mcp_id].goal = Val(hs[f].update.goal)
                  /\ mcps[hs[l].mcp_id].definition_json = DefinitionAssigned(l)
            /\ (ChangedDefinitionOnly(f) /\ ChangedGoalOnly(l)) =>
                  /\ mcps[hs[l].mcp_id].definition_json = DefinitionAssigned(f)
                  /\ mcps[hs[l].mcp_id].goal = Val(hs[l].update.goal)

\* An update of goal committed first, an update of definition_json that
\* had loaded the row before it committed second; the record holds both.
C20_Witness ==
    \E f, l \in Handlers :
        /\ Raced(f, l)
        /\ ChangedGoalOnly(f) /\ ChangedDefinitionOnly(l) /\ hs[l].op = "update_mcp"
        /\ mcps[hs[l].mcp_id].goal = "g2"
        /\ mcps[hs[l].mcp_id].definition_json = DefB

(***************************************************************************)
(* Properties of the vector index gateway, checked under SpecGateway.      *)
(***************************************************************************)
\* The handlers whose request ran the body of get_vector_store to its end.
Builders == {h \in Handlers : hs[h].client_built}

\* C13: however the handlers interleave at first use, the body of
\* get_vector_store constructs a client at most once, and every handler
\* holds the cached client.
C13_ClientConstructedAtMostOnce == Cardinality(Builders) <= 1

\* Handler h holds a request that resolved the dependency with success,
\* after the first use, while no other request was in progress.
ResolvedAfterFirstUse(h) ==
    /\ hs[h].pc = "done" /\ hs[h].op = "get_vector_store_dependency"
    /\ hs[h].resp.status = 200
    /\ hs[h].pre_cache # "none"
    /\ \A g \in Handlers \ {h} : Free(g)

\* C14: a request that goes through get_vector_store_dependency after the
\* first use constructs neither an index client nor an embedding-function
\* handle: it reuses the two constructed at first use.
C14_LaterRequestsReuseBothHandles ==
    \A h \in Handlers :
        ResolvedAfterFirstUse(h) => ~hs[h].client_built /\ ~hs[h].embeddings_built

\* The client CHROMA_HOST selects.
SelectedClient == IF chroma_host THEN "remote" ELSE "local"

ExportOps == {"export_mcp_markdown", "export_mcp_json", "export_mcp_yaml"}

\* Handler h holds an ended request of one of ops that found the row of its
\* project, owned by its caller.
EndedOnOwnedRow(h, ops) ==
    /\ hs[h].pc = "done" /\ hs[h].op \in ops
    /\ hs[h].user_id # 0
    /\ hs[h].pre[hs[h].mcp_id].owner_id = hs[h].user_id

\* C21: each of the three exports, on an owned project whose definition is
\* null, answers with success.
C21_ExportsTolerateNullDefinition ==
    \A h \in Handlers :
        (/\ EndedOnOwnedRow(h, ExportOps)
         /\ hs[h].pre[hs[h].mcp_id].definition_json = JNull) =>
            hs[h].resp.status = 200

\* Handler h holds an ended export_mcp_json request on an owned project
\* that stored a definition (a value other than null).
ExportedJson(h) ==
    /\ EndedOnOwnedRow(h, {"export_mcp_json"})
    /\ hs[h].pre[hs[h].mcp_id].definition_json # JNull

\* The stored definition request h found.
StoredDefinition(h) == hs[h].pre[hs[h].mcp_id].definition_json

C23_ChunksOnlyAccumulate ==
    [][/\ index \subseteq index'
       /\ \A c \in index : \A d \in index' : d.id = c.id => d = c
       /\ \A h \in Handlers :
             (hs'[h] # hs[h] /\ hs'[h].op = "delete_mcp") => index' = index
      ]_vars

\* A delete of project 1 that was accepted while the index held a chunk
\* tagged with project 1: the row is gone, the chunk is there.
C23_Witness ==
    \E h \in Handlers :
        /\ hs[h].pc = "done" /\ hs[h].op = "delete_mcp" /\ hs[h].resp.status = 204
        /\ mcps[hs[h].mcp_id] = NoRow
        /\ \E c \in index : c.metadata.mcp_id = hs[h].mcp_id

(***************************************************************************)
(* Properties of the single-field generation, checked under SpecAssist.    *)
(***************************************************************************)
\* v is a list of strings.
ListOfStrings(v) ==
    Kind(v) = "list" /\ \A i \in 1..Len(Val(v)) : Kind(Val(v)[i]) = "str"

\* v is a list of objects that each hold a string input and a string output.
ListOfExamples(v) ==
    Kind(v) = "list" /\ \A i \in 1..Len(Val(v)) : McpExampleItemValid(Val(v)[i])

\* The shape the field asks of the data.
ComponentValid(target_field, v) ==
    IF target_field = "constraints" THEN ListOfStrings(v) ELSE ListOfExamples(v)

\* C24: a generate_component request for constraints or examples whose
\* model output parsed as JSON answers with success only when the data it
\* returns is a list of strings (constraints) or a list of objects with
\* string input and output (examples); otherwise it answers with a failure.
C24_ComponentIsValidatedBeforeReturn ==
    \A h \in Handlers :
        (/\ hs[h].pc = "done" /\ hs[h].op = "generate_component"
         /\ hs[h].source \in JsonFields
         /\ hs[h].llm[1] = "json") =>
            /\ hs[h].resp.status = 200 =>
                  ComponentValid(hs[h].source, Val(hs[h].resp.body).generated_data)
            /\ ~ComponentValid(hs[h].source, generated_data(hs[h].source, hs[h].llm[2])) =>
                  hs[h].resp.status >= 400

(***************************************************************************)
(* The writes of one ingest request, checked under SpecIngest.             *)
(***************************************************************************)
\* The step is a step of the write loop of the ingest request handler h
\* holds.
WriteStep(h) ==
    hs[h].pc \in {"ingest_file_write", "ingest_url_write"} /\ hs'[h] # hs[h]

\* C25: an ingest request writes its chunks one per step, in chunk order,
\* each under an id no chunk of the index has; when the write of chunk i+1
\* fails the index stays as it is, chunks 1..i of the request in it, the
\* request ends there with a failure, and no later chunk is written.
C25_ChunksWrittenOneByOneNoRollback ==
    [][\A h \in Handlers :
          WriteStep(h) =>
              LET r == hs[h]
                  i == r.written + 1
                  meta == ChunkMetadata(r.source, r.user_id, r.mcp_id)
              IN IF index' # index
                 THEN /\ i <= Len(r.chunks)
                      /\ \E c \in index' \ index :
                            /\ index' = index \cup {c}
                            /\ c.text = r.chunks[i] /\ c.metadata = meta
                            /\ c.id \notin {d.id : d \in index}
                      /\ hs'[h].written = i /\ hs'[h].pc = r.pc
                 ELSE /\ hs'[h].pc = "done" /\ hs'[h].written = r.written
                      /\ IF i <= Len(r.chunks)
                         THEN hs'[h].resp.status >= 500
                         ELSE hs'[h].resp.status = 201
                      /\ Cardinality({c \in index' : c.metadata = meta}) >= r.written
      ]_vars

\* An ingest request of two chunks whose second write failed: it ended
\* with 500 and its first chunk is in the index.
C25_Witness ==
    \E h \in Handlers :
        /\ FailedMidBatch(h) /\ Len(hs[h].chunks) = 2 /\ hs[h].written = 1
        /\ hs[h].resp.status = 500
        /\ \E c \in index :
              /\ c.text = hs[h].chunks[1]
              /\ c.metadata = ChunkMetadata(hs[h].source, hs[h].user_id, hs[h].mcp_id)

(***************************************************************************)
(* The order of the steps of a generate request and the failure of a       *)
(* commit, checked under Spec.                                             *)
(***************************************************************************)
\* The positions of a generate request, in the order of its single pass.
GenerateOrder ==
    [generate_retrieve |-> 1, generate_invoke |-> 2, generate_commit |-> 3, done |-> 4]

\* C26: a generate request passes its steps once, in the order compose,
\* invoke, parse, commit or fail; it invokes the model at most once; and
\* the step that writes definition_json writes an object that parsed and
\* passed the validation against the schema.
C26_SinglePassWriteAfterValidation ==
    [][\A h \in Handlers :
          (hs[h].op = "generate_mcp_json" /\ hs[h].pc # "done" /\ hs'[h] # hs[h]) =>
              /\ GenerateOrder[hs'[h].pc] > GenerateOrder[hs[h].pc]
              /\ hs[h].llm[1] # "none" => hs'[h].llm = hs[h].llm
              /\ mcps'[hs[h].mcp_id].definition_json # mcps[hs[h].mcp_id].definition_json =>
                    /\ hs[h].llm[1] = "json"
                    /\ McpDefinitionValid(hs[h].generated)
      ]_vars

\* Handler h holds an ended request whose commit of the project record
\* the store rejected.
CommitRejected(h) ==
    /\ hs[h].pc = "done" /\ hs[h].resp.detail = "commit failed"
    /\ hs[h].op \in {"generate_mcp_json", "update_mcp", "delete_mcp", "create_mcp",
                     "initiate_mcp_from_prompt"}

ProjectOps ==
    {"get_mcp_by_id", "update_mcp", "delete_mcp", "export_mcp_markdown",
     "export_mcp_json", "export_mcp_yaml", "generate_mcp_json", "test_mcp_run"}

\* Handler h holds a project-bound request of a user (whose row exists) on
\* a project that exists and is owned by another user.
OnForeignProject(h) ==
    /\ hs[h].op \in ProjectOps
    /\ hs[h].user_id # 0
    /\ hs[h].pre[hs[h].mcp_id] # NoRow
    /\ hs[h].pre[hs[h].mcp_id].owner_id # hs[h].user_id

\* The owner ids of the records a response of list_user_mcps holds.
ListedOwners(body) == {Val(Val(Val(body)[i]).owner_id) : i \in 1..Len(Val(body))}

\* C28: a project-bound request of user U on a project of another owner
\* ends in its first step with 404 and no record in its response; it
\* changes and deletes no project record, invokes no model and reads no
\* chunk of the index.  list_user_mcps answers with records of U only.
C28_ForeignProjectIsNotFound ==
    \A h \in Handlers :
        /\ OnForeignProject(h) =>
              /\ hs[h].pc = "done" /\ hs[h].resp.status = 404
              /\ hs[h].resp.body = JNull
              /\ mcps = hs[h].pre
              /\ hs[h].llm[1] = "none" /\ hs[h].search = "none"
        /\ (hs[h].op = "list_user_mcps" /\ hs[h].resp.status = 200) =>
              ListedOwners(hs[h].resp.body) \subseteq {hs[h].user_id}

\* A delete_mcp request on the project of another user: 404, and the row
\* is there.
C28_Witness ==
    \E h \in Handlers :
        /\ OnForeignProject(h) /\ hs[h].op = "delete_mcp"
        /\ hs[h].resp.status = 404
        /\ mcps[hs[h].mcp_id] # NoRow

(***************************************************************************)
(* The cache of the index client, checked under SpecGateway.               *)
(***************************************************************************)
\* The step is a call of get_vector_store by the request handler h takes.
CallsGetVectorStore(h) ==
    /\ Free(h) /\ hs'[h] # hs[h]
    /\ hs'[h].op \in {"get_vector_store_dependency", "health_check"}

\* The step ends the body of get_vector_store run for handler h.
BodyEnds(h) ==
    \/ hs[h].pc = "get_vector_store_body" /\ hs'[h].pc # hs[h].pc
    \/ CallsGetVectorStore(h) /\ hs'[h].op = "health_check" /\ client_cache = "none"

\* C29: a call of get_vector_store that raises stores nothing: the cache
\* holds a constructed client or nothing, never the failure.  A call that
\* finds the cache empty runs the body again, and a body that finds the
\* index reachable stores the client it constructed.  A stored client is
\* never replaced.
C29_FailureIsNotCached ==
    [][/\ client_cache' \in {"none", SelectedClient}
       /\ client_cache # "none" => client_cache' = client_cache
       /\ \A h \in Handlers :
             /\ (CallsGetVectorStore(h) /\ client_cache = "none"
                 /\ hs'[h].op = "get_vector_store_dependency") =>
                    hs'[h].pc = "get_vector_store_body"
             /\ BodyEnds(h) =>
                    IF chroma_host /\ ~remote_up
                    THEN client_cache' = client_cache /\ ~hs'[h].client_built
                    ELSE /\ hs'[h].client_built
                         /\ client_cache = "none" => client_cache' = SelectedClient
      ]_vars

\* One request failed on the unreachable remote index, and a request that
\* had found the cache empty constructed the client, which is cached.
C29_Witness ==
    \E g, h \in Handlers :
        /\ hs[g].pc = "done" /\ hs[g].op = "get_vector_store_dependency"
        /\ hs[g].resp.detail = "vector store unavailable"
        /\ hs[h].pc = "done" /\ hs[h].pre_cache = "none" /\ hs[h].client_built
        /\ chroma_host /\ client_cache = "remote"

(***************************************************************************)
(* Ingestion into projects the caller does not own, checked under          *)
(* SpecLifecycle.                                                          *)
(***************************************************************************)
IngestOps == {"ingest_file", "ingest_url"}

\* The sources of the chunks user_id ingested.
SourcesOf(user_id) == {c.metadata.source : c \in {d \in index : d.metadata.user_id = user_id}}

\* C30: ingest_file and ingest_url look at no project row: whatever the
\* row of mcp_id (none, deleted, of another user), the request is not
\* refused as not found or forbidden, and every chunk it writes carries the
\* id of the caller and the mcp_id of the request.  The retrieval of
\* generate_mcp_json and the list of list_ingested_sources return chunks
\* and sources of the caller only.
C30_IngestIgnoresProjectRow ==
    [][\A h \in Handlers :
          /\ hs'[h].op \in IngestOps =>
                /\ hs'[h].resp.status \notin {403, 404}
                /\ \A c \in index' \ index :
                      /\ c.metadata.user_id = users'[hs'[h].clerk]
                      /\ c.metadata.mcp_id = hs'[h].mcp_id
          /\ (hs'[h].op = "generate_mcp_json" /\ hs'[h].search = "ok") =>
                \A i \in 1..Len(hs'[h].results) :
                    Chunk(hs'[h].results[i]).metadata.user_id = hs'[h].user_id
          /\ (hs'[h].op = "list_ingested_sources" /\ hs'[h].resp.status = 200) =>
                ListedSources(hs'[h].resp.body) \subseteq SourcesOf(hs'[h].user_id)
      ]_vars

\* The index holds a chunk another user ingested under the project of user
\* 1 and a chunk under a project id that has no row, and the list of the
\* sources of that project, asked by its owner, named no source.
C30_Witness ==
    \E h \in Handlers :
        /\ hs[h].pc = "done" /\ hs[h].op = "list_ingested_sources"
        /\ hs[h].resp.status = 200 /\ ListedSources(hs[h].resp.body) = {}
        /\ mcps[hs[h].mcp_id] # NoRow /\ mcps[hs[h].mcp_id].owner_id = hs[h].user_id
        /\ \E c \in index : /\ c.metadata.mcp_id = hs[h].mcp_id
                            /\ c.metadata.user_id # hs[h].user_id
        /\ \E c \in index : mcps[c.metadata.mcp_id] = NoRow

====
